---- MODULE Spec2Model ----
(***************************************************************************)
(* Poto media scanner (bins/Poto/app.go) with the part of its frontend     *)
(* (bins/Poto/frontend/src/App.tsx) that issues StartScan / StopScan and   *)
(* consumes the mediaFound / scanProgress notifications.                   *)
(*                                                                         *)
(* One scan session = one performScan goroutine (the directory walk), its  *)
(* workers and its collector, communicating through pathChan and mediaChan *)
(* and a cancellable context.  Every step below is one shared-memory       *)
(* operation of the Go code (an atomic load/store/add, a channel           *)
(* operation, a mutex-protected section, an event emission) together with  *)
(* the goroutine-local computation that follows it.                        *)
(*                                                                         *)
(* A file name is a sequence of one-character strings, so that the hidden  *)
(* test (first byte) and the extension (suffix from the last dot) are      *)
(* computed as the code computes them.                                     *)
(***************************************************************************)
EXTENDS Integers, Sequences, FiniteSets, Bags, TLC

(***************************************************************************)
(* Bounds of the model.  The queue capacities, the batch size and the      *)
(* progress cadence are 100, 50, 20 and 100 in app.go; the model scales    *)
(* them down so that a full queue, a full batch and a cadence hit all      *)
(* occur on trees of a few files.  The thumbnail read limit is 100 MiB in  *)
(* app.go; the model scales it to MaxThumbBytes.  MaxNameLen and MaxFiles  *)
(* bound the inputs of the classifier and of the filter effect,            *)
(* MaxPackages the manifest of the package manager.                        *)
(***************************************************************************)
MaxSessions == 2
MaxClicks == 3
MaxClicksOne == 2
NumCallers == 2
PathCap == 1
MediaCap == 1
BatchSize == 2
ProgressEvery == 2
MaxNameLen == 4
MaxFiles == 3
MaxThumbBytes == 2
MaxPackages == 2

Sessions == 1..MaxSessions
Callers == 1..NumCallers

\* performScan: workerCount := 4
workerCount == 4

(***************************************************************************)
(* Strings                                                                 *)
(***************************************************************************)
UpperLower ==
    [ c \in {"A", "B", "C", "D", "E", "F", "G", "H", "I", "J", "K", "L", "M",
             "N", "O", "P", "Q", "R", "S", "T", "U", "V", "W", "X", "Y", "Z"} |->
        CASE c = "A" -> "a" [] c = "B" -> "b" [] c = "C" -> "c" [] c = "D" -> "d"
          [] c = "E" -> "e" [] c = "F" -> "f" [] c = "G" -> "g" [] c = "H" -> "h"
          [] c = "I" -> "i" [] c = "J" -> "j" [] c = "K" -> "k" [] c = "L" -> "l"
          [] c = "M" -> "m" [] c = "N" -> "n" [] c = "O" -> "o" [] c = "P" -> "p"
          [] c = "Q" -> "q" [] c = "R" -> "r" [] c = "S" -> "s" [] c = "T" -> "t"
          [] c = "U" -> "u" [] c = "V" -> "v" [] c = "W" -> "w" [] c = "X" -> "x"
          [] c = "Y" -> "y" [] c = "Z" -> "z" ]

\* Faulty variant of ToLower: the letters are left as they are.
ToLowerNone(s) == s

\* strings.ToLower
ToLower(s) ==
    [ i \in 1..Len(s) |-> IF s[i] \in DOMAIN UpperLower THEN UpperLower[s[i]] ELSE s[i] ]

\* filepath.Ext of a path whose last element is name: the suffix beginning at
\* the final dot of that element, empty if there is no dot.
Ext(name) ==
    LET dots == { i \in 1..Len(name) : name[i] = "." }
    IN  IF dots = {} THEN <<>>
        ELSE LET last == CHOOSE i \in dots : \A j \in dots : j <= i
             IN  SubSeq(name, last, Len(name))

imageExts ==
    { <<".","j","p","g">>,
      <<".","j","p","e","g">>,
      <<".","p","n","g">>,
      <<".","g","i","f">>,
      <<".","b","m","p">>,
      <<".","w","e","b","p">>,
      <<".","s","v","g">>,
      <<".","i","c","o">>,
      <<".","t","i","f","f">>,
      <<".","t","i","f">>,
      <<".","h","e","i","c">>,
      <<".","h","e","i","f">> }

videoExts ==
    { <<".","m","p","4">>,
      <<".","a","v","i">>,
      <<".","m","k","v">>,
      <<".","m","o","v">>,
      <<".","w","m","v">>,
      <<".","f","l","v">>,
      <<".","w","e","b","m">>,
      <<".","m","4","v">>,
      <<".","m","p","g">>,
      <<".","m","p","e","g">>,
      <<".","3","g","p">>,
      <<".","o","g","v">> }

\* Faulty variant of MediaType: the extension is looked up without lower-casing and
\* videos are not recognised.
MediaTypeImagesOnly(name) ==
    IF Ext(name) \in imageExts THEN "image" ELSE ""

\* worker: ext := strings.ToLower(filepath.Ext(path)); image, video or "" (not media)
MediaType(name) ==
    LET ext == ToLower(Ext(name))
    IN  IF ext \in imageExts THEN "image"
        ELSE IF ext \in videoExts THEN "video"
        ELSE ""

\* Faulty variant of IsHidden: no name counts as hidden.
IsHiddenNever(name) == FALSE

\* performScan callback: d.Name() != "" && d.Name()[0] == '.'
IsHidden(name) == name # <<>> /\ name[1] = "."

(***************************************************************************)
(* Directory trees.  A tree is the sequence of its entries in the order    *)
(* filepath.WalkDir visits them when nothing is skipped (pre-order, the    *)
(* entries of a directory in lexical order); entry 1 is the start path.    *)
(*   name    final path element                                            *)
(*   dir     d.IsDir()                                                     *)
(*   depth   number of ancestors                                           *)
(*   statOK  os.Stat(path) succeeds when a worker calls it                 *)
(*   decodes generateThumbnail can decode the file                         *)
(*   readErr os.ReadDir(path) fails when WalkDir lists the directory       *)
(*   fault   the step of generateThumbnail that panics on this file        *)
(*           ("none", "decode", "resize", "encode")                        *)
(*   size    length of the file in bytes                                   *)
(*   need    number of bytes the decoder reads before it has the image     *)
(***************************************************************************)
Node(name, dir, depth, statOK, decodes) ==
    [ name |-> name, dir |-> dir, depth |-> depth, statOK |-> statOK, decodes |-> decodes,
      readErr |-> FALSE, fault |-> "none", size |-> 1, need |-> 1 ]

\* a directory that cannot be listed (permission denied)
Unreadable(name, depth) ==
    [ Node(name, TRUE, depth, TRUE, FALSE) EXCEPT !.readErr = TRUE ]

\* a corrupted image file: the given step of generateThumbnail panics on it
Corrupt(name, depth, fault) ==
    [ Node(name, FALSE, depth, TRUE, TRUE) EXCEPT !.fault = fault ]

\* /root/.hidden/secret.png, /root/clip.mp4, /root/img.jpg
TreeScenario ==
    << Node(<<"r","o","o","t">>, TRUE, 0, TRUE, FALSE),
       Node(<<".","h","i","d","d","e","n">>, TRUE, 1, TRUE, FALSE),
       Node(<<"s","e","c","r","e","t",".","p","n","g">>, FALSE, 2, TRUE, TRUE),
       Node(<<"c","l","i","p",".","m","p","4">>, FALSE, 1, TRUE, FALSE),
       Node(<<"i","m","g",".","j","p","g">>, FALSE, 1, TRUE, TRUE) >>

\* /root/.h/sub/a.png, /root/.x.jpg, /root/b.txt, /root/d/c.MP4
TreeNested ==
    << Node(<<"r","o","o","t">>, TRUE, 0, TRUE, FALSE),
       Node(<<".","h">>, TRUE, 1, TRUE, FALSE),
       Node(<<"s","u","b">>, TRUE, 2, TRUE, FALSE),
       Node(<<"a",".","p","n","g">>, FALSE, 3, TRUE, TRUE),
       Node(<<".","x",".","j","p","g">>, FALSE, 1, TRUE, TRUE),
       Node(<<"b",".","t","x","t">>, FALSE, 1, TRUE, FALSE),
       Node(<<"d">>, TRUE, 1, TRUE, FALSE),
       Node(<<"c",".","M","P","4">>, FALSE, 2, TRUE, FALSE) >>

\* /root/a.gif (corrupt), /root/b.mkv (removed before the worker stats it), /root/c.png
TreeFaulty ==
    << Node(<<"r","o","o","t">>, TRUE, 0, TRUE, FALSE),
       Node(<<"a",".","g","i","f">>, FALSE, 1, TRUE, FALSE),
       Node(<<"b",".","m","k","v">>, FALSE, 1, FALSE, FALSE),
       Node(<<"c",".","p","n","g">>, FALSE, 1, TRUE, TRUE) >>

\* /root/a.jpg, /root/b.JPEG, /root/c.mp4
TreeFlat ==
    << Node(<<"r","o","o","t">>, TRUE, 0, TRUE, FALSE),
       Node(<<"a",".","j","p","g">>, FALSE, 1, TRUE, TRUE),
       Node(<<"b",".","J","P","E","G">>, FALSE, 1, TRUE, TRUE),
       Node(<<"c",".","m","p","4">>, FALSE, 1, TRUE, FALSE) >>

\* /root/a.jpg
TreeOne ==
    << Node(<<"r","o","o","t">>, TRUE, 0, TRUE, FALSE),
       Node(<<"a",".","j","p","g">>, FALSE, 1, TRUE, TRUE) >>

\* /root/a.jpg, /root/locked (unreadable; holds x.png), /root/z.mp4
TreeDenied ==
    << Node(<<"r","o","o","t">>, TRUE, 0, TRUE, FALSE),
       Node(<<"a",".","j","p","g">>, FALSE, 1, TRUE, TRUE),
       Unreadable(<<"l","o","c","k","e","d">>, 1),
       Node(<<"x",".","p","n","g">>, FALSE, 2, TRUE, TRUE),
       Node(<<"z",".","m","p","4">>, FALSE, 1, TRUE, FALSE) >>

\* an image file of the given length whose image data ends after `need` bytes
Sized(name, depth, size, need) ==
    [ Node(name, FALSE, depth, TRUE, TRUE) EXCEPT !.size = size, !.need = need ]

\* /root/big.png (longer than the limit, all of it image data),
\* /root/tail.png (longer than the limit, the image ends within the limit)
TreeLarge ==
    << Node(<<"r","o","o","t">>, TRUE, 0, TRUE, FALSE),
       Sized(<<"b","i","g",".","p","n","g">>, 1, MaxThumbBytes + 1, MaxThumbBytes + 1),
       Sized(<<"t","a","i","l",".","p","n","g">>, 1, MaxThumbBytes + 1, 1) >>

\* /root/P/a/sub/x.jpg, /root/P/b/y.png
TreeRules ==
    << Node(<<"r","o","o","t">>, TRUE, 0, TRUE, FALSE),
       Node(<<"P">>, TRUE, 1, TRUE, FALSE),
       Node(<<"a">>, TRUE, 2, TRUE, FALSE),
       Node(<<"s","u","b">>, TRUE, 3, TRUE, FALSE),
       Node(<<"x",".","j","p","g">>, FALSE, 4, TRUE, TRUE),
       Node(<<"b">>, TRUE, 2, TRUE, FALSE),
       Node(<<"y",".","p","n","g">>, FALSE, 3, TRUE, TRUE) >>

\* /root/a.png (resize panics), /root/b.gif (encode panics), /root/c.jpg (decode panics)
TreeCorrupt ==
    << Node(<<"r","o","o","t">>, TRUE, 0, TRUE, FALSE),
       Corrupt(<<"a",".","p","n","g">>, 1, "resize"),
       Corrupt(<<"b",".","g","i","f">>, 1, "encode"),
       Corrupt(<<"c",".","j","p","g">>, 1, "decode") >>

\* /home/.cfg/a.jpg, /home/.cfg/sub/b.png, scanned from the start path /home/.cfg
TreeDotRoot ==
    << Node(<<".","c","f","g">>, TRUE, 0, TRUE, FALSE),
       Node(<<"a",".","j","p","g">>, FALSE, 1, TRUE, TRUE),
       Node(<<"s","u","b">>, TRUE, 1, TRUE, FALSE),
       Node(<<"b",".","p","n","g">>, FALSE, 2, TRUE, TRUE) >>

Trees ==
    [ scenario |-> TreeScenario, nested |-> TreeNested, faulty |-> TreeFaulty,
      flat |-> TreeFlat, one |-> TreeOne, denied |-> TreeDenied,
      corrupt |-> TreeCorrupt, large |-> TreeLarge, rules |-> TreeRules,
      dotroot |-> TreeDotRoot ]


\* Faulty variant of SkipDirNext: the walk descends into the refused directory.
SkipDirNextDescend(t, i) == i + 1

\* filepath.WalkDir on SkipDir: the next entry visited after directory i is
\* the first later entry that does not lie below i.
SkipDirNext(t, i) ==
    LET later == { k \in (i+1)..Len(t) : t[k].depth <= t[i].depth }
    IN  IF later = {} THEN Len(t) + 1
        ELSE CHOOSE k \in later : \A j \in later : k <= j

\* entry j lies (at any depth) below directory i
Under(t, i, j) ==
    /\ t[i].dir
    /\ i < j
    /\ \A k \in (i+1)..j : t[k].depth > t[i].depth

\* filepath.Dir(path) as an entry: the parent directory (0 for the start path)
Parent(t, j) ==
    LET up == { i \in 1..(j-1) : t[i].depth = t[j].depth - 1 }
    IN  IF up = {} THEN 0 ELSE CHOOSE i \in up : \A k \in up : k <= i


\* the configured per-folder rule: on the folder /root/P (entry 2 of
\* TreeRules) only the subfolder "a" is allowed, recursively
FolderRule ==
    [ parent |-> 2, allowed |-> { <<"a">> }, blocked |-> {}, recursive |-> TRUE ]

\* the entries the rule keeps out of a scan, as the configuration guide
\* describes it: what lies in a subfolder of the parent that is blocked, or
\* that is not among the allowed ones when some are named
RuleExcludes(t, j) ==
    \E c \in 1..Len(t) :
        /\ t[c].dir
        /\ Under(t, FolderRule.parent, c)
        /\ t[c].depth = t[FolderRule.parent].depth + 1
        /\ Under(t, c, j)
        /\ \/ t[c].name \in FolderRule.blocked
           \/ FolderRule.allowed # {} /\ t[c].name \notin FolderRule.allowed

\* generateThumbnail: the number of bytes io.LimitReader(file, 100*1024*1024)
\* lets the decoder read
Available(f) == IF f.size < MaxThumbBytes THEN f.size ELSE MaxThumbBytes

\* generateThumbnail: the number of bytes the decoder reads from the file
BytesRead(f) == IF f.need < Available(f) THEN f.need ELSE Available(f)

\* generateThumbnail: "data" for a data URL, "" for no thumbnail, "panic" when
\* a panic leaves the function.  The decoders run before the recovering defer
\* is registered; the conversion, resize and encode steps run after it, and a
\* recovered panic makes the function return the zero value "".
GenerateThumbnail(f) ==
    IF f.fault = "decode" THEN "panic"
    ELSE IF ~f.decodes \/ f.need > Available(f) THEN ""
    ELSE IF f.fault \in {"resize", "encode"} THEN ""
    ELSE "data"

\* worker: the MediaFile built for entry i. A path is identified with its
\* entry; thumb says whether generateThumbnail returned a non-empty data URL
\* (it is only called for images).
Media(t, i) ==
    [ path |-> i,
      type |-> MediaType(t[i].name),
      thumb |-> MediaType(t[i].name) = "image" /\ GenerateThumbnail(t[i]) = "data" ]

(***************************************************************************)
(* State                                                                   *)
(***************************************************************************)
VARIABLES
    tree,          \* the directory tree scanned (a field name of Trees); never changes
    limit,         \* number of sessions this behaviour may create; never changes
    maxClicks,     \* number of Start / Stop clicks this behaviour may see; never changes
    clicks,        \* number of Start / Stop clicks so far
    scanning,      \* App.scanning (atomic.Bool)
    cancelFn,      \* App.cancelFn: the session whose context it cancels, 0 = nil
    nSess,         \* number of contexts created so far by StartScan
    call,          \* per caller: the frontend handler activation and its position
    uiScanning,    \* frontend state isScanning
    mediaFiles,    \* frontend state mediaFiles (the consumer's result set)
    scanProgress,  \* frontend state scanProgress
    ctxDone,       \* per session: ctx.Done() is closed
    ppc,           \* per session: position of the performScan goroutine
    idx,           \* per session: entry the walk is at
    rdScanned,     \* per session: scannedFiles value read for the snapshot being built
    pathChan,      \* per session: buffered channel of paths
    pathClosed,    \* per session: close(pathChan) done
    mediaChan,     \* per session: buffered channel of MediaFile
    mediaClosed,   \* per session: close(mediaChan) done
    workers,       \* per session: the worker goroutines, as the bag of their
                   \* positions [pc, cur] (cur = the path the worker holds);
                   \* the workers run the same code and are told apart by nothing
    cpc,           \* per session: position of the collector goroutine
    batch,         \* per session: the collector's batch
    scannedFiles,  \* per session: atomic counter
    foundMedia,    \* per session: atomic counter
    enq,           \* history: paths sent on pathChan
    proc,          \* history: paths counted by a worker (scannedFiles.Add)
    delivered,     \* history: records emitted in mediaFound batches
    nDelivered,    \* history: number of records emitted in mediaFound batches
    pushed,        \* history: records sent on mediaChan
    nPushed,       \* history: number of sends on mediaChan
    finals,        \* history: number of scanProgress{IsComplete: true} emitted
    finalProg,     \* history: the last such snapshot
    late,          \* history: a scanProgress{IsComplete: false} was emitted after a final one
    walkErr,       \* per session: err, the value filepath.WalkDir returned ("nil" before)
    scanErrors,    \* history: number of scanError notifications emitted
    arg,           \* the input of a function examined on its own
    res            \* the result of that function

appVars == <<scanning, cancelFn, nSess, clicks>>
uiVars == <<uiScanning, mediaFiles, scanProgress>>
cfgVars == <<tree, limit, maxClicks>>
walkVars == <<ppc, idx, rdScanned>>
chanVars == <<pathChan, pathClosed, mediaChan, mediaClosed>>
workVars == <<workers>>
collVars == <<cpc, batch>>
countVars == <<scannedFiles, foundMedia>>
histVars == <<enq, proc, delivered, nDelivered, pushed, nPushed, finals, finalProg, late>>
errVars == <<walkErr, scanErrors>>
pureVars == <<arg, res>>
vars ==
    <<tree, limit, maxClicks, clicks, scanning, cancelFn, nSess, call, uiScanning, mediaFiles,
      scanProgress, ctxDone, ppc, idx, rdScanned, pathChan, pathClosed,
      mediaChan, mediaClosed, workers, cpc, batch, scannedFiles, foundMedia,
      enq, proc, delivered, nDelivered, pushed, nPushed, finals, finalProg, late, walkErr,
      scanErrors,
      arg, res>>

\* the state of the application: everything but arg and res
appState ==
    <<cfgVars, errVars, appVars, call, uiVars, ctxDone, walkVars, chanVars, workVars,
      collVars, countVars, histVars>>

T == Trees[tree]

Snapshot(sc, fm, cur, done) ==
    [ scannedFiles |-> sc, foundMedia |-> fm, currentPath |-> cur, isComplete |-> done ]

IdleCall == [ pc |-> "idle", sess |-> 0, r |-> FALSE, err |-> "", snap |-> {} ]

\* NewApp, startup and the frontend's initial state, for the given trees and
\* session budget.
InitApp(trees, lim, nclicks) ==
    /\ tree \in trees
    /\ limit = lim
    /\ maxClicks = nclicks
    /\ clicks = 0
    /\ scanning = FALSE
    /\ cancelFn = 0
    /\ nSess = 0
    /\ call = [ c \in Callers |-> IdleCall ]
    /\ uiScanning = FALSE
    /\ mediaFiles = {}
    /\ scanProgress = Snapshot(0, 0, 0, FALSE)
    /\ ctxDone = [ s \in Sessions |-> FALSE ]
    /\ ppc = [ s \in Sessions |-> "none" ]
    /\ idx = [ s \in Sessions |-> 0 ]
    /\ rdScanned = [ s \in Sessions |-> 0 ]
    /\ pathChan = [ s \in Sessions |-> <<>> ]
    /\ pathClosed = [ s \in Sessions |-> FALSE ]
    /\ mediaChan = [ s \in Sessions |-> <<>> ]
    /\ mediaClosed = [ s \in Sessions |-> FALSE ]
    /\ workers = [ s \in Sessions |-> EmptyBag ]
    /\ cpc = [ s \in Sessions |-> "none" ]
    /\ batch = [ s \in Sessions |-> <<>> ]
    /\ scannedFiles = [ s \in Sessions |-> 0 ]
    /\ foundMedia = [ s \in Sessions |-> 0 ]
    /\ enq = [ s \in Sessions |-> {} ]
    /\ proc = [ s \in Sessions |-> {} ]
    /\ delivered = [ s \in Sessions |-> {} ]
    /\ nDelivered = [ s \in Sessions |-> 0 ]
    /\ pushed = [ s \in Sessions |-> {} ]
    /\ nPushed = [ s \in Sessions |-> 0 ]
    /\ finals = [ s \in Sessions |-> 0 ]
    /\ finalProg = [ s \in Sessions |-> Snapshot(0, 0, 0, FALSE) ]
    /\ late = [ s \in Sessions |-> FALSE ]
    /\ walkErr = [ s \in Sessions |-> "nil" ]
    /\ scanErrors = [ s \in Sessions |-> 0 ]

\* the initial state of a specification of the application
InitWith(trees, lim, nclicks) ==
    /\ InitApp(trees, lim, nclicks)
    /\ arg = <<>>
    /\ res = <<>>

(***************************************************************************)
(* Frontend handlers and the bound methods they call                       *)
(***************************************************************************)
SetCall(c, pc) == call' = [ call EXCEPT ![c].pc = pc ]

\* A new handler activation takes the first free slot (the slots only name
\* the activations in flight).
FreeSlot(c) ==
    /\ call[c].pc = "idle"
    /\ \A d \in Callers : d < c => call[d].pc # "idle"

\* StartScan calls that have read scanning = false and not yet created their context
PendingStarts == Cardinality({ c \in Callers : call[c].pc = "ss_store" })

\* handleStartScan up to the call of StartScan. The Start button is rendered
\* only while isScanning is false.
HandleStartScan(c) ==
    /\ FreeSlot(c)
    /\ ~uiScanning
    /\ clicks < maxClicks
    /\ clicks' = clicks + 1
    /\ mediaFiles' = {}
    /\ scanProgress' = Snapshot(0, 0, 0, FALSE)
    /\ uiScanning' = TRUE
    /\ call' = [ call EXCEPT ![c] = [ IdleCall EXCEPT !.pc = "ss_load", !.snap = mediaFiles ] ]
    /\ UNCHANGED <<pureVars, cfgVars, errVars, scanning, cancelFn, nSess, ctxDone, walkVars, chanVars, workVars, collVars,
                   countVars, histVars>>

\* StartScan: if a.scanning.Load() { return error }; the empty start path is
\* replaced by the home directory, whose lookup may fail.
StartScanLoad(c) ==
    /\ call[c].pc = "ss_load"
    /\ \E startPath \in {"", "root"}, homeOK \in BOOLEAN :
         IF scanning
         THEN call' = [ call EXCEPT ![c].pc = "hs_catch", ![c].err = "scan already in progress" ]
         ELSE IF startPath = "" /\ ~homeOK
         THEN call' = [ call EXCEPT ![c].pc = "hs_catch", ![c].err = "home" ]
         ELSE /\ nSess + PendingStarts < limit
              /\ SetCall(c, "ss_store")
    /\ UNCHANGED <<pureVars, cfgVars, errVars, appVars, uiVars, ctxDone, walkVars, chanVars, workVars,
                   collVars, countVars, histVars>>

\* StartScan: a.scanning.Store(true); scanCtx, cancel := context.WithCancel(a.ctx)
StartScanStore(c) ==
    /\ call[c].pc = "ss_store"
    /\ scanning' = TRUE
    /\ nSess' = nSess + 1
    /\ call' = [ call EXCEPT ![c].pc = "ss_lock", ![c].sess = nSess + 1 ]
    /\ UNCHANGED <<pureVars, cfgVars, errVars, cancelFn, clicks, uiVars, ctxDone, walkVars, chanVars, workVars,
                   collVars, countVars, histVars>>

\* StartScan: a.mu.Lock(); a.cancelFn = cancel; a.mu.Unlock()
StartScanSetCancel(c) ==
    /\ call[c].pc = "ss_lock"
    /\ cancelFn' = call[c].sess
    /\ SetCall(c, "ss_go")
    /\ UNCHANGED <<pureVars, cfgVars, errVars, scanning, nSess, clicks, uiVars, ctxDone, walkVars, chanVars,
                   workVars, collVars, countVars, histVars>>

\* StartScan: go a.performScan(scanCtx, startPath); return nil
StartScanGo(c) ==
    /\ call[c].pc = "ss_go"
    /\ ppc' = [ ppc EXCEPT ![call[c].sess] = "init" ]
    /\ SetCall(c, "hs_isscan")
    /\ UNCHANGED <<pureVars, cfgVars, errVars, appVars, uiVars, ctxDone, idx, rdScanned, chanVars,
                   workVars, collVars, countVars, histVars>>

\* handleStartScan: const scanning = await IsScanning()
HandleStartIsScanning(c) ==
    /\ call[c].pc = "hs_isscan"
    /\ call' = [ call EXCEPT ![c].pc = "hs_set", ![c].r = scanning ]
    /\ UNCHANGED <<pureVars, cfgVars, errVars, appVars, uiVars, ctxDone, walkVars, chanVars, workVars,
                   collVars, countVars, histVars>>

\* handleStartScan: setIsScanning(scanning)
HandleStartSet(c) ==
    /\ call[c].pc = "hs_set"
    /\ uiScanning' = call[c].r
    /\ call' = [ call EXCEPT ![c] = IdleCall ]
    /\ UNCHANGED <<pureVars, cfgVars, errVars, appVars, mediaFiles, scanProgress, ctxDone, walkVars,
                   chanVars, workVars, collVars, countVars, histVars>>

\* handleStartScan: catch (err) { alert(...); setIsScanning(false) }
HandleStartCatch(c) ==
    /\ call[c].pc = "hs_catch"
    /\ uiScanning' = FALSE
    /\ call' = [ call EXCEPT ![c] = IdleCall ]
    /\ UNCHANGED <<pureVars, cfgVars, errVars, appVars, mediaFiles, scanProgress, ctxDone, walkVars,
                   chanVars, workVars, collVars, countVars, histVars>>

\* handleStopScan up to the call of StopScan. The Stop button is rendered
\* only while isScanning is true.
HandleStopScan(c) ==
    /\ FreeSlot(c)
    /\ uiScanning
    /\ clicks < maxClicks
    /\ clicks' = clicks + 1
    /\ call' = [ call EXCEPT ![c] = [ IdleCall EXCEPT !.pc = "st_lock" ] ]
    /\ UNCHANGED <<pureVars, cfgVars, errVars, scanning, cancelFn, nSess, uiVars, ctxDone, walkVars, chanVars, workVars,
                   collVars, countVars, histVars>>

\* Faulty variant of StopScanCancel: a.cancelFn() is called without the nil
\* test; calling a nil func panics.
StopScanCancelUnguarded(c) ==
    /\ call[c].pc = "st_lock"
    /\ IF cancelFn # 0
       THEN /\ ctxDone' = [ ctxDone EXCEPT ![cancelFn] = TRUE ]
            /\ cancelFn' = 0
            /\ SetCall(c, "st_store")
            /\ UNCHANGED <<ppc, cpc, workers>>
       ELSE /\ call' = [ d \in Callers |-> [ call[d] EXCEPT !.pc = "dead" ] ]
            /\ ppc' = [ s \in Sessions |-> "dead" ]
            /\ cpc' = [ s \in Sessions |-> "dead" ]
            /\ workers' = [ s \in Sessions |->
                                [ x \in {[ pc |-> "dead", cur |-> 0 ]} |-> workerCount ] ]
            /\ UNCHANGED <<ctxDone, cancelFn>>
    /\ UNCHANGED <<pureVars, cfgVars, errVars, scanning, nSess, clicks, uiVars, idx, rdScanned,
                   chanVars, batch, countVars, histVars>>

\* StopScan: a.mu.Lock(); if a.cancelFn != nil { a.cancelFn(); a.cancelFn = nil }; a.mu.Unlock()
StopScanCancel(c) ==
    /\ call[c].pc = "st_lock"
    /\ IF cancelFn # 0
       THEN /\ ctxDone' = [ ctxDone EXCEPT ![cancelFn] = TRUE ]
            /\ cancelFn' = 0
       ELSE UNCHANGED <<ctxDone, cancelFn>>
    /\ SetCall(c, "st_store")
    /\ UNCHANGED <<pureVars, cfgVars, errVars, scanning, nSess, clicks, uiVars, walkVars, chanVars, workVars,
                   collVars, countVars, histVars>>

\* StopScan: a.scanning.Store(false)
StopScanStore(c) ==
    /\ call[c].pc = "st_store"
    /\ scanning' = FALSE
    /\ SetCall(c, "ht_set")
    /\ UNCHANGED <<pureVars, cfgVars, errVars, cancelFn, nSess, clicks, uiVars, ctxDone, walkVars, chanVars,
                   workVars, collVars, countVars, histVars>>

\* handleStopScan: setIsScanning(false)
HandleStopSet(c) ==
    /\ call[c].pc = "ht_set"
    /\ uiScanning' = FALSE
    /\ call' = [ call EXCEPT ![c] = IdleCall ]
    /\ UNCHANGED <<pureVars, cfgVars, errVars, appVars, mediaFiles, scanProgress, ctxDone, walkVars,
                   chanVars, workVars, collVars, countVars, histVars>>


(***************************************************************************)
(* performScan: setup, the WalkDir callback, teardown                      *)
(***************************************************************************)
WPos(pc, cur) == [ pc |-> pc, cur |-> cur ]

\* frontend EventsOn('scanProgress'): setScanProgress(progress);
\* if (progress.isComplete) setIsScanning(false)
OnScanProgress(p) ==
    /\ scanProgress' = p
    /\ uiScanning' = IF p.isComplete THEN FALSE ELSE uiScanning

\* frontend EventsOn('mediaFound'): append the records whose path is not yet present
OnMediaFound(b) ==
    mediaFiles' = mediaFiles \cup
        { b[k] : k \in { j \in 1..Len(b) : \A m \in mediaFiles : m.path # b[j].path } }

\* performScan: make the two channels, start the workers and the collector,
\* enter filepath.WalkDir at the start path.
PerformScanInit(s) ==
    /\ ppc[s] = "init"
    /\ workers' = [ workers EXCEPT ![s] = [ x \in {WPos("recv", 0)} |-> workerCount ] ]
    /\ cpc' = [ cpc EXCEPT ![s] = "run" ]
    /\ idx' = [ idx EXCEPT ![s] = 1 ]
    /\ ppc' = [ ppc EXCEPT ![s] = "cb" ]
    /\ UNCHANGED <<pureVars, cfgVars, errVars, appVars, call, uiVars, ctxDone, rdScanned, chanVars,
                   batch, countVars, histVars>>

\* Faulty variant of WalkTo: at the end of the walk close(pathChan) is left out.
WalkToNoClose(s, k) ==
    /\ idx' = [ idx EXCEPT ![s] = k ]
    /\ ppc' = [ ppc EXCEPT ![s] = IF k > Len(T) THEN "wait" ELSE "cb" ]

\* the walk goes on at entry k, or WalkDir returns when there is none
WalkTo(s, k) ==
    /\ idx' = [ idx EXCEPT ![s] = k ]
    /\ ppc' = [ ppc EXCEPT ![s] = IF k > Len(T) THEN "close" ELSE "cb" ]

\* Faulty variant of WalkSkipAll: on cancellation performScan returns at once.
WalkSkipAllReturn(s) ==
    /\ ppc' = [ ppc EXCEPT ![s] = "ret" ]
    /\ UNCHANGED idx

\* callback: return filepath.SkipAll. WalkDir returns and performScan goes on
\* with close(pathChan).
WalkSkipAll(s) ==
    /\ ppc' = [ ppc EXCEPT ![s] = "close" ]
    /\ UNCHANGED idx

\* callback, after the progress block: if !d.IsDir() { select ... }; return nil.
\* For a directory WalkDir then lists it: it goes on with the first entry, or,
\* when os.ReadDir fails, calls the callback a second time with the error.
AfterProgress(s) ==
    IF T[idx[s]].dir
    THEN IF T[idx[s]].readErr
         THEN /\ ppc' = [ ppc EXCEPT ![s] = "cberr" ]
              /\ UNCHANGED idx
         ELSE WalkTo(s, idx[s] + 1)
    ELSE /\ ppc' = [ ppc EXCEPT ![s] = "send" ]
         /\ UNCHANGED idx

\* Faulty variant of WalkCallback: the hidden-name rule is not applied to the
\* start path itself.
WalkCallbackRootKept(s) ==
    /\ ppc[s] \in {"cb", "cberr"}
    /\ IF ppc[s] = "cberr"
       THEN WalkTo(s, SkipDirNext(T, idx[s]))
       ELSE IF ctxDone[s]
       THEN WalkSkipAll(s)
       ELSE IF idx[s] # 1 /\ IsHidden(T[idx[s]].name)
       THEN IF T[idx[s]].dir
            THEN WalkTo(s, SkipDirNext(T, idx[s]))
            ELSE WalkTo(s, idx[s] + 1)
       ELSE /\ ppc' = [ ppc EXCEPT ![s] = "prog" ]
            /\ UNCHANGED idx
    /\ UNCHANGED <<pureVars, cfgVars, errVars, appVars, call, uiVars, ctxDone, rdScanned, chanVars,
                   workVars, collVars, countVars, histVars>>

\* callback entry: if err != nil { return nil } (WalkDir then goes on after the
\* directory it could not list), the cancellation check, the hidden-name rule
WalkCallback(s) ==
    /\ ppc[s] \in {"cb", "cberr"}
    /\ IF ppc[s] = "cberr"
       THEN WalkTo(s, SkipDirNext(T, idx[s]))
       ELSE IF ctxDone[s]
       THEN WalkSkipAll(s)
       ELSE IF IsHidden(T[idx[s]].name)
       THEN IF T[idx[s]].dir
            THEN WalkTo(s, SkipDirNext(T, idx[s]))         \* return filepath.SkipDir
            ELSE WalkTo(s, idx[s] + 1)                      \* return nil
       ELSE /\ ppc' = [ ppc EXCEPT ![s] = "prog" ]
            /\ UNCHANGED idx
    /\ UNCHANGED <<pureVars, cfgVars, errVars, appVars, call, uiVars, ctxDone, rdScanned, chanVars,
                   workVars, collVars, countVars, histVars>>

\* callback: if scannedFiles.Load()%100 == 0
WalkProgressCheck(s) ==
    /\ ppc[s] = "prog"
    /\ IF scannedFiles[s] % ProgressEvery = 0
       THEN /\ ppc' = [ ppc EXCEPT ![s] = "prog_scanned" ]
            /\ UNCHANGED idx
       ELSE AfterProgress(s)
    /\ UNCHANGED <<pureVars, cfgVars, errVars, appVars, call, uiVars, ctxDone, rdScanned, chanVars,
                   workVars, collVars, countVars, histVars>>

\* callback: ScannedFiles: int(scannedFiles.Load())
WalkProgressScanned(s) ==
    /\ ppc[s] = "prog_scanned"
    /\ rdScanned' = [ rdScanned EXCEPT ![s] = scannedFiles[s] ]
    /\ ppc' = [ ppc EXCEPT ![s] = "prog_found" ]
    /\ UNCHANGED <<pureVars, cfgVars, errVars, appVars, call, uiVars, ctxDone, idx, chanVars, workVars,
                   collVars, countVars, histVars>>

\* callback: FoundMedia: int(foundMedia.Load()); runtime.EventsEmit(..., "scanProgress", ...)
WalkProgressEmit(s) ==
    /\ ppc[s] = "prog_found"
    /\ OnScanProgress(Snapshot(rdScanned[s], foundMedia[s], Parent(T, idx[s]), FALSE))
    /\ late' = [ late EXCEPT ![s] = late[s] \/ finals[s] > 0 ]
    /\ AfterProgress(s)
    /\ UNCHANGED <<pureVars, cfgVars, errVars, appVars, call, mediaFiles, ctxDone, rdScanned, chanVars,
                   workVars, collVars, countVars, enq, proc, delivered, nDelivered, pushed, nPushed,
                   finals, finalProg>>

\* Faulty variant of HasRoom: an unbounded channel.
HasRoomAlways(q, cap) == TRUE

\* a send on a buffered channel (make(chan T, cap)) can proceed while the
\* buffer is not full (no receiver waits while the buffer holds an element)
HasRoom(q, cap) == Len(q) < cap

\* callback, the select's second case: case <-ctx.Done() can proceed
SendAbort(s) == ctxDone[s]

\* callback: select { case pathChan <- path: ; case <-ctx.Done(): return filepath.SkipAll }
\* Go chooses among the cases that can proceed; it blocks when none can.
WalkSend(s) ==
    /\ ppc[s] = "send"
    /\ \/ /\ HasRoom(pathChan[s], PathCap)
          /\ pathChan' = [ pathChan EXCEPT ![s] = Append(@, idx[s]) ]
          /\ enq' = [ enq EXCEPT ![s] = @ \cup {idx[s]} ]
          /\ WalkTo(s, idx[s] + 1)
       \/ /\ SendAbort(s)
          /\ WalkSkipAll(s)
          /\ UNCHANGED <<pathChan, enq>>
    /\ UNCHANGED <<pureVars, cfgVars, errVars, appVars, call, uiVars, ctxDone, rdScanned, pathClosed,
                   mediaChan, mediaClosed, workVars, collVars, countVars, proc,
                   delivered, nDelivered, pushed, nPushed, finals, finalProg, late>>

\* filepath.WalkDir: the error it returns when the callback's last return value
\* was ret; SkipDir and SkipAll are turned into nil.
WalkDirResult(ret) == IF ret \in {"SkipDir", "SkipAll"} THEN "nil" ELSE ret

\* performScan: err := filepath.WalkDir(...) returns, either because the walk
\* is over (the callback returned nil) or because the callback returned
\* SkipAll; then close(pathChan)
WalkClose(s) ==
    /\ ppc[s] = "close"
    /\ walkErr' = [ walkErr EXCEPT ![s] =
                       WalkDirResult(IF idx[s] > Len(T) THEN "nil" ELSE "SkipAll") ]
    /\ pathClosed' = [ pathClosed EXCEPT ![s] = TRUE ]
    /\ ppc' = [ ppc EXCEPT ![s] = "wait" ]
    /\ UNCHANGED <<pureVars, cfgVars, scanErrors, appVars, call, uiVars, ctxDone, idx, rdScanned, pathChan,
                   mediaChan, mediaClosed, workVars, collVars, countVars, histVars>>

\* Faulty variant of WalkWait: close(mediaChan) without wg.Wait().
WalkWaitEarly(s) ==
    /\ ppc[s] = "wait"
    /\ mediaClosed' = [ mediaClosed EXCEPT ![s] = TRUE ]
    /\ ppc' = [ ppc EXCEPT ![s] = "final" ]
    /\ UNCHANGED <<pureVars, cfgVars, errVars, appVars, call, uiVars, ctxDone, idx, rdScanned, pathChan,
                   pathClosed, mediaChan, workVars, collVars, countVars, histVars>>

\* performScan: wg.Wait(); close(mediaChan)
WalkWait(s) ==
    /\ ppc[s] = "wait"
    /\ \A x \in BagToSet(workers[s]) : x.pc = "exit"
    /\ mediaClosed' = [ mediaClosed EXCEPT ![s] = TRUE ]
    /\ ppc' = [ ppc EXCEPT ![s] = "final" ]
    /\ UNCHANGED <<pureVars, cfgVars, errVars, appVars, call, uiVars, ctxDone, idx, rdScanned, pathChan,
                   pathClosed, mediaChan, workVars, collVars, countVars, histVars>>

\* Faulty variant of EmitFinal: a cancelled scan returns without the completion snapshot.
EmitFinalUnlessCancelled(s) ==
    IF ctxDone[s]
    THEN UNCHANGED <<scanProgress, uiScanning, finals, finalProg>>
    ELSE /\ OnScanProgress(Snapshot(scannedFiles[s], foundMedia[s], 0, TRUE))
         /\ finals' = [ finals EXCEPT ![s] = @ + 1 ]
         /\ finalProg' = [ finalProg EXCEPT ![s] = Snapshot(scannedFiles[s], foundMedia[s], 0, TRUE) ]

\* performScan: runtime.EventsEmit(a.ctx, "scanProgress", ScanProgress{..., IsComplete: true})
EmitFinal(s) ==
    /\ OnScanProgress(Snapshot(scannedFiles[s], foundMedia[s], 0, TRUE))
    /\ finals' = [ finals EXCEPT ![s] = @ + 1 ]
    /\ finalProg' = [ finalProg EXCEPT ![s] = Snapshot(scannedFiles[s], foundMedia[s], 0, TRUE) ]

\* Faulty variant of WalkFinal: the final snapshot carries the completion flag
\* only, its counts are left at zero.
WalkFinalNoCounts(s) ==
    /\ ppc[s] = "final"
    /\ OnScanProgress(Snapshot(0, 0, 0, TRUE))
    /\ finals' = [ finals EXCEPT ![s] = @ + 1 ]
    /\ finalProg' = [ finalProg EXCEPT ![s] = Snapshot(0, 0, 0, TRUE) ]
    /\ ppc' = [ ppc EXCEPT ![s] = "ret" ]
    /\ UNCHANGED <<pureVars, cfgVars, errVars, appVars, call, mediaFiles, ctxDone, idx, rdScanned, chanVars,
                   workVars, collVars, countVars, enq, proc, delivered, nDelivered, pushed, nPushed, late>>

\* performScan: the final snapshot. WalkDir has turned SkipAll into nil and the
\* callback returns no other error, so no scanError follows.
WalkFinal(s) ==
    /\ ppc[s] = "final"
    /\ EmitFinal(s)
    /\ ppc' = [ ppc EXCEPT ![s] = "ret" ]
    /\ UNCHANGED <<pureVars, cfgVars, errVars, appVars, call, mediaFiles, ctxDone, idx, rdScanned, chanVars,
                   workVars, collVars, countVars, enq, proc, delivered, nDelivered, pushed, nPushed, late>>

\* performScan: if err != nil && err != filepath.SkipAll
ScanErrorDue(err) == err # "nil" /\ err # "SkipAll"

\* performScan: the scanError notification when it is due (the frontend
\* handler only shows an alert), then defer a.scanning.Store(false)
WalkReturn(s) ==
    /\ ppc[s] = "ret"
    /\ scanErrors' = [ scanErrors EXCEPT ![s] = IF ScanErrorDue(walkErr[s]) THEN @ + 1 ELSE @ ]
    /\ scanning' = FALSE
    /\ ppc' = [ ppc EXCEPT ![s] = "done" ]
    /\ UNCHANGED <<pureVars, cfgVars, walkErr, cancelFn, nSess, clicks, call, uiVars, ctxDone, idx, rdScanned,
                   chanVars, workVars, collVars, countVars, histVars>>


(***************************************************************************)
(* worker                                                                  *)
(***************************************************************************)
\* the worker at position x moves to position y
Move(s, x, y) ==
    workers' = [ workers EXCEPT ![s] = (@ (-) SetToBag({x})) (+) SetToBag({y}) ]

\* Faulty variant of Receive: the received path stays in the channel.
ReceiveKeep(q) == q

\* a channel receive takes the oldest element out of the buffer
Receive(q) == Tail(q)

\* worker: for path := range pathChan (blocks while the channel is empty and open)
WorkerRecv(s, x) ==
    /\ x.pc = "recv"
    /\ IF pathChan[s] # <<>>
       THEN /\ Move(s, x, WPos("chk", Head(pathChan[s])))
            /\ pathChan' = [ pathChan EXCEPT ![s] = Receive(@) ]
       ELSE /\ pathClosed[s]
            /\ Move(s, x, WPos("exit", 0))
            /\ UNCHANGED pathChan
    /\ UNCHANGED <<pureVars, cfgVars, errVars, appVars, call, uiVars, ctxDone, walkVars, pathClosed,
                   mediaChan, mediaClosed, collVars, countVars, histVars>>

\* Faulty variant of WorkerCheck: the worker does not look at the context
\* before it processes the path it took.
WorkerCheckNever(s, x) ==
    /\ x.pc = "chk"
    /\ Move(s, x, WPos("add", x.cur))
    /\ UNCHANGED <<pureVars, cfgVars, errVars, appVars, call, uiVars, ctxDone, walkVars, chanVars,
                   collVars, countVars, histVars>>

\* worker: select { case <-ctx.Done(): return; default: }
WorkerCheck(s, x) ==
    /\ x.pc = "chk"
    /\ Move(s, x, IF ctxDone[s] THEN WPos("exit", 0) ELSE WPos("add", x.cur))
    /\ UNCHANGED <<pureVars, cfgVars, errVars, appVars, call, uiVars, ctxDone, walkVars, chanVars,
                   collVars, countVars, histVars>>

\* Faulty variant of WorkerScan: the error of os.Stat is not looked at.
WorkerScanStatIgnored(s, x) ==
    /\ x.pc = "add"
    /\ scannedFiles' = [ scannedFiles EXCEPT ![s] = @ + 1 ]
    /\ proc' = [ proc EXCEPT ![s] = @ \cup {x.cur} ]
    /\ Move(s, x, IF MediaType(T[x.cur].name) = ""
                  THEN WPos("recv", 0) ELSE WPos("found", x.cur))
    /\ UNCHANGED <<pureVars, cfgVars, errVars, appVars, call, uiVars, ctxDone, walkVars, chanVars,
                   collVars, foundMedia, enq, delivered, nDelivered, pushed, nPushed, finals,
                   finalProg, late>>

\* worker: scannedFiles.Add(1); classify by extension; os.Stat(path).
\* Not media, or a failing stat: continue with the next path.
WorkerScan(s, x) ==
    /\ x.pc = "add"
    /\ scannedFiles' = [ scannedFiles EXCEPT ![s] = @ + 1 ]
    /\ proc' = [ proc EXCEPT ![s] = @ \cup {x.cur} ]
    /\ Move(s, x, IF MediaType(T[x.cur].name) = "" \/ ~T[x.cur].statOK
                  THEN WPos("recv", 0) ELSE WPos("found", x.cur))
    /\ UNCHANGED <<pureVars, cfgVars, errVars, appVars, call, uiVars, ctxDone, walkVars, chanVars,
                   collVars, foundMedia, enq, delivered, nDelivered, pushed, nPushed, finals,
                   finalProg, late>>

\* an unrecovered panic: no goroutine of the process takes another step
ProcessDies ==
    /\ call' = [ c \in Callers |-> [ call[c] EXCEPT !.pc = "dead" ] ]
    /\ ppc' = [ s \in Sessions |-> "dead" ]
    /\ cpc' = [ s \in Sessions |-> "dead" ]
    /\ workers' = [ s \in Sessions |-> [ x \in {WPos("dead", 0)} |-> workerCount ] ]

\* Faulty variant of WorkerFound: a file whose thumbnail could not be made is
\* dropped (continue) instead of being pushed without thumbnail.
WorkerFoundSkipFailed(s, x) ==
    /\ x.pc = "found"
    /\ foundMedia' = [ foundMedia EXCEPT ![s] = @ + 1 ]
    /\ IF Media(T, x.cur).type = "image" /\ GenerateThumbnail(T[x.cur]) = "panic"
       THEN ProcessDies
       ELSE /\ Move(s, x, IF Media(T, x.cur).type = "image" /\ ~Media(T, x.cur).thumb
                          THEN WPos("recv", 0) ELSE WPos("push", x.cur))
            /\ UNCHANGED <<call, ppc, cpc>>
    /\ UNCHANGED <<pureVars, cfgVars, errVars, appVars, uiVars, ctxDone, idx, rdScanned, chanVars,
                   batch, scannedFiles, histVars>>

\* worker: foundMedia.Add(1); build the MediaFile (thumbnail for images).
\* A panic that leaves generateThumbnail is not recovered in the worker
\* goroutine either: the Go runtime ends the process, with every goroutine
\* and the frontend's pending calls.
WorkerFound(s, x) ==
    /\ x.pc = "found"
    /\ foundMedia' = [ foundMedia EXCEPT ![s] = @ + 1 ]
    /\ IF Media(T, x.cur).type = "image" /\ GenerateThumbnail(T[x.cur]) = "panic"
       THEN ProcessDies
       ELSE /\ Move(s, x, WPos("push", x.cur))
            /\ UNCHANGED <<call, ppc, cpc>>
    /\ UNCHANGED <<pureVars, cfgVars, errVars, appVars, uiVars, ctxDone, idx, rdScanned, chanVars,
                   batch, scannedFiles, histVars>>

\* Faulty variant of PushAbort: a default case, the worker gives up at once.
PushAbortAlways(s) == TRUE

\* worker, the select's second case: case <-ctx.Done() can proceed
PushAbort(s) == ctxDone[s]

\* Faulty variant of WorkerPush: a select with a default case, a record that
\* finds the result queue full is dropped and the worker goes on.
WorkerPushDrop(s, x) ==
    /\ x.pc = "push"
    /\ IF HasRoom(mediaChan[s], MediaCap)
       THEN /\ mediaChan' = [ mediaChan EXCEPT ![s] = Append(@, Media(T, x.cur)) ]
            /\ pushed' = [ pushed EXCEPT ![s] = @ \cup {Media(T, x.cur)} ]
            /\ nPushed' = [ nPushed EXCEPT ![s] = @ + 1 ]
       ELSE UNCHANGED <<mediaChan, pushed, nPushed>>
    /\ Move(s, x, WPos("recv", 0))
    /\ UNCHANGED <<pureVars, cfgVars, errVars, appVars, call, uiVars, ctxDone, walkVars, pathChan,
                   pathClosed, mediaClosed, collVars, countVars, enq, proc, delivered,
                   nDelivered, finals, finalProg, late>>

\* worker: select { case mediaChan <- media: ; case <-ctx.Done(): return }
WorkerPush(s, x) ==
    /\ x.pc = "push"
    /\ \/ /\ HasRoom(mediaChan[s], MediaCap)
          /\ mediaChan' = [ mediaChan EXCEPT ![s] = Append(@, Media(T, x.cur)) ]
          /\ pushed' = [ pushed EXCEPT ![s] = @ \cup {Media(T, x.cur)} ]
          /\ nPushed' = [ nPushed EXCEPT ![s] = @ + 1 ]
          /\ Move(s, x, WPos("recv", 0))
       \/ /\ PushAbort(s)
          /\ Move(s, x, WPos("exit", 0))
          /\ UNCHANGED <<mediaChan, pushed, nPushed>>
    /\ UNCHANGED <<pureVars, cfgVars, errVars, appVars, call, uiVars, ctxDone, walkVars, pathChan,
                   pathClosed, mediaClosed, collVars, countVars, enq, proc, delivered,
                   nDelivered, finals, finalProg, late>>

(***************************************************************************)
(* collector                                                               *)
(***************************************************************************)
SeqSet(q) == { q[k] : k \in 1..Len(q) }

\* runtime.EventsEmit(a.ctx, "mediaFound", batch), delivered to the frontend handler
EmitMediaFound(s, b) ==
    /\ delivered' = [ delivered EXCEPT ![s] = @ \cup SeqSet(b) ]
    /\ nDelivered' = [ nDelivered EXCEPT ![s] = @ + Len(b) ]
    /\ OnMediaFound(b)

\* Faulty variant of BatchFull: the batch is emitted one record late.
BatchFullLate(b) == Len(b) > BatchSize

\* collector: if len(batch) >= 20
BatchFull(b) == Len(b) >= BatchSize

\* Faulty variant of Collect: after a full batch has been emitted the collector
\* goes on appending to it.
CollectKeepBatch(s) ==
    /\ cpc[s] = "run"
    /\ IF mediaChan[s] # <<>>
       THEN /\ mediaChan' = [ mediaChan EXCEPT ![s] = Receive(@) ]
            /\ LET b == Append(batch[s], Head(mediaChan[s]))
               IN  /\ batch' = [ batch EXCEPT ![s] = b ]
                   /\ IF BatchFull(b)
                      THEN EmitMediaFound(s, b)
                      ELSE UNCHANGED <<delivered, nDelivered, mediaFiles>>
            /\ UNCHANGED cpc
       ELSE /\ mediaClosed[s]
            /\ IF Len(batch[s]) > 0
               THEN EmitMediaFound(s, batch[s])
               ELSE UNCHANGED <<delivered, nDelivered, mediaFiles>>
            /\ cpc' = [ cpc EXCEPT ![s] = "done" ]
            /\ UNCHANGED <<mediaChan, batch>>
    /\ UNCHANGED <<pureVars, cfgVars, errVars, appVars, call, uiScanning, scanProgress, ctxDone, walkVars,
                   pathChan, pathClosed, mediaClosed, workVars, countVars, enq, proc,
                   pushed, nPushed, finals, finalProg, late>>

\* collector: for media := range mediaChan { append; emit a full batch };
\* after the channel is closed and drained, emit what is left.
Collect(s) ==
    /\ cpc[s] = "run"
    /\ IF mediaChan[s] # <<>>
       THEN /\ mediaChan' = [ mediaChan EXCEPT ![s] = Receive(@) ]
            /\ LET b == Append(batch[s], Head(mediaChan[s]))
               IN  IF BatchFull(b)
                   THEN /\ EmitMediaFound(s, b)
                        /\ batch' = [ batch EXCEPT ![s] = <<>> ]
                   ELSE /\ batch' = [ batch EXCEPT ![s] = b ]
                        /\ UNCHANGED <<delivered, nDelivered, mediaFiles>>
            /\ UNCHANGED cpc
       ELSE /\ mediaClosed[s]
            /\ IF Len(batch[s]) > 0
               THEN EmitMediaFound(s, batch[s])
               ELSE UNCHANGED <<delivered, nDelivered, mediaFiles>>
            /\ cpc' = [ cpc EXCEPT ![s] = "done" ]
            /\ UNCHANGED <<mediaChan, batch>>
    /\ UNCHANGED <<pureVars, cfgVars, errVars, appVars, call, uiScanning, scanProgress, ctxDone, walkVars,
                   pathChan, pathClosed, mediaClosed, workVars, countVars, enq, proc,
                   pushed, nPushed, finals, finalProg, late>>

(***************************************************************************)
(* Specifications                                                          *)
(***************************************************************************)
CallStep(c) ==
    \/ StartScanLoad(c)
    \/ StartScanStore(c)
    \/ StartScanSetCancel(c)
    \/ StartScanGo(c)
    \/ HandleStartIsScanning(c)
    \/ HandleStartSet(c)
    \/ HandleStartCatch(c)
    \/ StopScanCancel(c)
    \/ StopScanStore(c)
    \/ HandleStopSet(c)

Walker(s) ==
    \/ PerformScanInit(s)
    \/ WalkCallback(s)
    \/ WalkProgressCheck(s)
    \/ WalkProgressScanned(s)
    \/ WalkProgressEmit(s)
    \/ WalkSend(s)
    \/ WalkClose(s)
    \/ WalkWait(s)
    \/ WalkFinal(s)
    \/ WalkReturn(s)

Worker(s) ==
    \E x \in BagToSet(workers[s]) :
        \/ WorkerRecv(s, x)
        \/ WorkerCheck(s, x)
        \/ WorkerScan(s, x)
        \/ WorkerFound(s, x)
        \/ WorkerPush(s, x)

\* a step of the program: of a call in flight or of a goroutine of a session
Run ==
    \/ \E c \in Callers : CallStep(c)
    \/ \E s \in Sessions : Walker(s)
    \/ \E s \in Sessions : Worker(s)
    \/ \E s \in Sessions : Collect(s)

Next ==
    \/ \E c \in Callers : HandleStartScan(c)
    \/ \E c \in Callers : HandleStopScan(c)
    \/ Run

\* The Go scheduler runs every runnable goroutine and the frontend every
\* continuation: the program does not stop while one of them can take a step.
\* The user's clicks are not forced.
Fairness == WF_vars(Run)

\* several sessions, started and stopped from the frontend
Init == InitWith({"one"}, MaxSessions, MaxClicks)
Spec == Init /\ [][Next]_vars

\* a single session on each of the trees
InitOne == InitWith({"scenario", "nested", "faulty"}, 1, MaxClicksOne)
SpecOne == InitOne /\ [][Next]_vars

\* a single session under fair scheduling
InitFair == InitWith({"scenario"}, 1, MaxClicksOne)
FairSpec == InitFair /\ [][Next]_vars /\ Fairness

\* a single session on the trees with failing reads and corrupted files
InitFaults == InitWith({"denied", "corrupt", "large"}, 1, MaxClicksOne)
SpecFaults == InitFaults /\ [][Next]_vars

(***************************************************************************)
(* The classifier on its own: a file name is drawn, the worker's           *)
(* classification is applied to it, and the case of its letters is changed *)
(* one letter at a time.                                                   *)
(***************************************************************************)
NameLetters == {".", "j", "J", "p", "P", "g", "G", "m", "M", "4"}

\* the file names the classifier is applied to
ProbeNames == UNION { [1..k -> NameLetters] : k \in 1..MaxNameLen }

\* the same letter in the other case
SwapCase(c) ==
    IF c \in DOMAIN UpperLower THEN UpperLower[c]
    ELSE IF \E u \in DOMAIN UpperLower : UpperLower[u] = c
         THEN CHOOSE u \in DOMAIN UpperLower : UpperLower[u] = c
         ELSE c

\* worker: the classification of lines 202-211 applied to the name
Classify ==
    /\ res.kind = "?"
    /\ res' = [ res EXCEPT !.kind = MediaType(arg),
                           !.first = IF @ = "?" THEN MediaType(arg) ELSE @ ]
    /\ UNCHANGED <<arg, appState>>

\* the same name with the case of its k-th letter changed
ChangeCase(k) ==
    /\ res.kind # "?"
    /\ SwapCase(arg[k]) # arg[k]
    /\ arg' = [ arg EXCEPT ![k] = SwapCase(@) ]
    /\ res' = [ res EXCEPT !.kind = "?", !.changed = TRUE ]
    /\ UNCHANGED appState

InitClassify ==
    /\ InitApp({"one"}, 1, 0)
    /\ arg \in ProbeNames
    /\ res = [ kind |-> "?", first |-> "?", changed |-> FALSE ]

NextClassify == Classify \/ \E k \in 1..MaxNameLen : k <= Len(arg) /\ ChangeCase(k)

SpecClassify == InitClassify /\ [][NextClassify]_vars

(***************************************************************************)
(* The frontend's filter effect on its own (App.tsx, "Filter and sort      *)
(* media"): the list of records, the kind filter, the search term and the  *)
(* folder filter are drawn, and the effect computes filteredFiles.  The    *)
(* date filters are left unset, as they are initially.                     *)
(***************************************************************************)
\* a record of the result list: path is the folder, "/" and the name
FileRec(folder, name, type) ==
    [ name |-> name, path |-> folder \o <<"/">> \o name, type |-> type ]

ProbeRecs ==
    { FileRec(f, n, t) : f \in { <<"/", "r">> }, n \in { <<"a">>, <<"B">> },
                         t \in { "image", "video" } }

\* the lists of up to MaxFiles records
ProbeLists == UNION { [1..k -> ProbeRecs] : k \in 0..MaxFiles }

\* String.prototype.includes
Includes(str, t) ==
    \E i \in 0..(Len(str) - Len(t)) : SubSeq(str, i + 1, i + Len(t)) = t

\* String.prototype.startsWith
StartsWith(str, t) == Len(t) <= Len(str) /\ SubSeq(str, 1, Len(t)) = t

\* Faulty variant of FilterKind: the kind is not looked at.
FilterKindAll(files, filter) == files

\* if (filter !== 'all') filtered = filtered.filter(m => m.type === filter)
FilterKind(files, filter) ==
    IF filter # "all"
    THEN SelectSeq(files, LAMBDA m : m.type = filter)
    ELSE files

\* if (searchTerm) { term = searchTerm.toLowerCase(); keep the records whose
\* lower-cased name or path includes term }
FilterSearch(files, searchTerm) ==
    IF searchTerm # <<>>
    THEN SelectSeq(files, LAMBDA m : \/ Includes(ToLower(m.name), ToLower(searchTerm))
                                     \/ Includes(ToLower(m.path), ToLower(searchTerm)))
    ELSE files

\* if (filterOptions.folderPath) keep the records whose path starts with it
FilterFolder(files, folderPath) ==
    IF folderPath # <<>>
    THEN SelectSeq(files, LAMBDA m : StartsWith(m.path, folderPath))
    ELSE files

\* a.name.localeCompare(b.name) < 0 on one-letter names: "a" sorts before "B"
NameBefore(a, b) == a.name = <<"a">> /\ b.name = <<"B">>

\* filtered.sort(by name): the sort is stable
RECURSIVE SortByName(_)
SortByName(files) ==
    IF files = <<>> THEN <<>>
    ELSE LET rest == SortByName(Tail(files))
             h == Head(files)
             k == Cardinality({ i \in 1..Len(rest) : NameBefore(rest[i], h) })
         IN  SubSeq(rest, 1, k) \o <<h>> \o SubSeq(rest, k + 1, Len(rest))

\* the effect: setFilteredFiles(filtered)
FilterEffect ==
    /\ ~res.fresh
    /\ res' = [ out |-> SortByName(FilterFolder(FilterSearch(FilterKind(arg.files, arg.filter),
                                                            arg.searchTerm),
                                               arg.folderPath)),
                fresh |-> TRUE ]
    /\ UNCHANGED <<arg, appState>>

\* the user picks another kind in the filter bar: setFilter(k)
SetFilter(k) ==
    /\ res.fresh
    /\ k # arg.filter
    /\ arg' = [ arg EXCEPT !.filter = k ]
    /\ res' = [ res EXCEPT !.fresh = FALSE ]
    /\ UNCHANGED appState

InitFilter ==
    /\ InitApp({"one"}, 1, 0)
    /\ arg \in [ files : ProbeLists, filter : {"all", "image", "video"},
                  searchTerm : { <<>>, <<"A">>, <<"R">> },
                  folderPath : { <<>>, <<"/", "r">>, <<"/", "x">> } ]
    /\ res = [ out |-> <<>>, fresh |-> FALSE ]

NextFilter == FilterEffect \/ \E k \in {"all", "image", "video"} : SetFilter(k)

SpecFilter == InitFilter /\ [][NextFilter]_vars

(***************************************************************************)
(* The package manager's command line on its own (binrex, func run): the   *)
(* command `install` with the argument list, the manifest and the          *)
(* installed list drawn.  arg holds what the process is started with, res  *)
(* the position of run() and what it has done so far.                      *)
(***************************************************************************)
PkgNames == { "p", "q" }

\* a manifest entry and what installing it meets: osOK says whether
\* os_supported names this system, toolsOK whether the required tools are
\* present, builds whether the clone and the build command succeed and leave
\* the build path, buildDirExist is the entry's flag of that name (the build
\* script places the binaries itself), copied the number of binaries that are
\* found after the build and copied to the bin directory.  An entry made
\* with Pkg is an ordinary package whose binary is found and copied.
Pkg(name, osOK, toolsOK, builds) ==
    [ name |-> name, osOK |-> osOK, toolsOK |-> toolsOK, builds |-> builds,
      buildDirExist |-> FALSE, copied |-> 1 ]

PkgRecs == { Pkg(n, o, t, b) : n \in PkgNames, o \in BOOLEAN, t \in BOOLEAN, b \in BOOLEAN }

\* the manifests of up to MaxPackages packages with distinct names
Manifests ==
    { m \in UNION { [1..k -> PkgRecs] : k \in 0..MaxPackages } :
        \A i \in 1..Len(m) : \A j \in 1..Len(m) : m[i].name = m[j].name => i = j }

\* the argument lists os.Args of the command install
ArgLists ==
    { <<"binrex", "install">>, <<"binrex", "install", "-a">> }
        \cup { <<"binrex", "install", n>> : n \in PkgNames }

\* findPackage: the entries of the manifest with that name (none: not found)
FindPackage(name) == { i \in 1..Len(arg.manifest) : arg.manifest[i].name = name }

\* the contents installed.json can have: the names of its entries, in order,
\* no name twice
InstalledLists ==
    { l \in UNION { [1..k -> PkgNames] : k \in 0..Cardinality(PkgNames) } :
        \A i \in 1..Len(l) : \A j \in 1..Len(l) : l[i] = l[j] => i = j }

\* Faulty variant of InstallPackage: the test for an entry of that name is
\* left out.
InstallPackageNoCheck(name, inst) ==
    LET Fail(e) == [ err |-> e, installed |-> inst, copied |-> FALSE ]
    IN  IF ~arg.hasManifest THEN Fail("manifest not found")
        ELSE IF FindPackage(name) = {} THEN Fail("not found")
        ELSE LET pkg == arg.manifest[CHOOSE i \in FindPackage(name) : TRUE]
             IN  IF ~pkg.osOK THEN Fail("unsupported OS")
                 ELSE IF ~pkg.toolsOK THEN Fail("missing required tools")
                 ELSE IF ~pkg.builds THEN Fail("build failed")
                 ELSE IF pkg.buildDirExist
                 THEN [ err |-> "", installed |-> Append(inst, name), copied |-> FALSE ]
                 ELSE IF pkg.copied = 0 THEN Fail("no binaries installed")
                 ELSE [ err |-> "", installed |-> Append(inst, name), copied |-> TRUE ]

\* Faulty variant of InstallPackage: the entry is written before the binaries
\* are looked for, and stays when none is copied.
InstallPackageRecordFirst(name, inst) ==
    LET Fail(e) == [ err |-> e, installed |-> inst, copied |-> FALSE ]
    IN  IF ~arg.hasManifest THEN Fail("manifest not found")
        ELSE IF FindPackage(name) = {} THEN Fail("not found")
        ELSE LET pkg == arg.manifest[CHOOSE i \in FindPackage(name) : TRUE]
             IN  IF ~pkg.osOK THEN Fail("unsupported OS")
                 ELSE IF ~pkg.toolsOK THEN Fail("missing required tools")
                 ELSE IF name \in SeqSet(inst) THEN Fail("")
                 ELSE IF ~pkg.builds THEN Fail("build failed")
                 ELSE IF pkg.buildDirExist
                 THEN [ err |-> "", installed |-> Append(inst, name), copied |-> FALSE ]
                 ELSE IF pkg.copied = 0
                 THEN [ err |-> "no binaries installed", installed |-> Append(inst, name),
                        copied |-> FALSE ]
                 ELSE [ err |-> "", installed |-> Append(inst, name), copied |-> TRUE ]

\* installPackage(name) with the installed list inst: the error it returns
\* ("" for nil), the installed list it leaves and whether it copied binaries
\* to the bin directory.  The checks in the order of the code: manifest file,
\* manifest entry, OS, tools, an entry of that name in installed.json (return
\* nil), clone and build, and then either the binaries found and copied (none:
\* error) or, with BuildDirExist, the entry without binary paths.
InstallPackage(name, inst) ==
    LET Fail(e) == [ err |-> e, installed |-> inst, copied |-> FALSE ]
    IN  IF ~arg.hasManifest THEN Fail("manifest not found")
        ELSE IF FindPackage(name) = {} THEN Fail("not found")
        ELSE LET pkg == arg.manifest[CHOOSE i \in FindPackage(name) : TRUE]
             IN  IF ~pkg.osOK THEN Fail("unsupported OS")
                 ELSE IF ~pkg.toolsOK THEN Fail("missing required tools")
                 ELSE IF name \in SeqSet(inst) THEN Fail("")
                 ELSE IF ~pkg.builds THEN Fail("build failed")
                 ELSE IF pkg.buildDirExist
                 THEN [ err |-> "", installed |-> Append(inst, name), copied |-> FALSE ]
                 ELSE IF pkg.copied = 0 THEN Fail("no binaries installed")
                 ELSE [ err |-> "", installed |-> Append(inst, name), copied |-> TRUE ]

\* installAll: the packages it keeps (not installed, OS supported, tools present)
Eligible(pkg, inst) == pkg.name \notin SeqSet(inst) /\ pkg.osOK /\ pkg.toolsOK

\* run: initPaths, createDirectories, then case "install": the argument check
\* and the test os.Args[2] == "-a"
RunInstall ==
    /\ res.pc = "run"
    /\ res' = IF ~arg.dirsOK \/ Len(arg.argv) < 3
              THEN [ res EXCEPT !.pc = "exit", !.exit = 1 ]
              ELSE IF arg.argv[3] = "-a"
              THEN [ res EXCEPT !.pc = "all" ]
              ELSE [ res EXCEPT !.pc = "named" ]
    /\ UNCHANGED <<arg, appState>>

\* installAll up to its loop: the manifest check, the filter, "No packages to
\* install".  run() does nothing with the value installAll returns and goes
\* on with the statement after the if.
InstallAllBegin ==
    /\ res.pc = "all"
    /\ res' = IF ~arg.hasManifest
              THEN [ res EXCEPT !.pc = "named", !.allErr = "manifest not found" ]
              ELSE LET todo == SelectSeq(arg.manifest, LAMBDA p : Eligible(p, res.installed))
                   IN  IF todo = <<>>
                       THEN [ res EXCEPT !.pc = "named", !.ranAll = TRUE ]
                       ELSE [ res EXCEPT !.pc = "loop", !.toInstall = todo ]
    /\ UNCHANGED <<arg, appState>>

\* installAll: one round of the loop over toInstall, and after the last one
\* the summary and the returned error
InstallAllStep ==
    /\ res.pc = "loop"
    /\ LET name == Head(res.toInstall).name
           r == InstallPackage(name, res.installed)
           failed == res.failCount + (IF r.err # "" THEN 1 ELSE 0)
           last == Len(res.toInstall) = 1
       IN  res' = [ res EXCEPT !.tried = Append(@, name),
                               !.installed = r.installed,
                               !.toInstall = Tail(@),
                               !.failCount = failed,
                               !.successCount = @ + (IF r.err = "" THEN 1 ELSE 0),
                               !.ranAll = last,
                               !.allErr = IF last /\ failed > 0
                                          THEN "some packages failed to install" ELSE "",
                               !.pc = IF last THEN "named" ELSE "loop" ]
    /\ UNCHANGED <<arg, appState>>

\* run: if err := installPackage(os.Args[2]); err != nil { return 1 }; return 0
InstallNamed ==
    /\ res.pc = "named"
    /\ LET r == InstallPackage(arg.argv[3], res.installed)
       IN  res' = [ res EXCEPT !.tried = Append(@, arg.argv[3]),
                               !.installed = r.installed,
                               !.exit = IF r.err # "" THEN 1 ELSE 0,
                               !.pc = "exit" ]
    /\ UNCHANGED <<arg, appState>>

InitInstall ==
    /\ InitApp({"one"}, 1, 0)
    /\ arg \in [ argv : ArgLists, manifest : Manifests, installed : InstalledLists,
                  hasManifest : BOOLEAN, dirsOK : BOOLEAN ]
    /\ res = [ pc |-> "run", installed |-> arg.installed, tried |-> <<>>,
               toInstall |-> <<>>, successCount |-> 0, failCount |-> 0,
               ranAll |-> FALSE, allErr |-> "", exit |-> -1 ]

NextInstall == RunInstall \/ InstallAllBegin \/ InstallAllStep \/ InstallNamed

SpecInstall == InitInstall /\ [][NextInstall]_vars

(***************************************************************************)
(* The commands install, remove and update of the package manager, run one *)
(* after the other.  arg holds what the commands find (the manifest), res  *)
(* what they leave: the entries of installed.json, the packages whose      *)
(* binaries are in the bin directory, and the record of the last command:  *)
(*   before, binsBefore  installed.json and the binaries when it began     *)
(*   called, mid         whether it called installPackage, and             *)
(*                       installed.json at that moment                     *)
(*   ierr, copied        what installPackage returned and whether it       *)
(*                       copied binaries                                   *)
(*   err                 what the command returned ("" for nil)            *)
(***************************************************************************)
\* the manifest entries of the commands' package: an ordinary one, one whose
\* build script places the binaries, one that yields no binary, and the ones
\* that fail the OS check, the tools check and the build
ManagedPkgs(n) ==
    { Pkg(n, TRUE, TRUE, TRUE),
      [ Pkg(n, TRUE, TRUE, TRUE) EXCEPT !.buildDirExist = TRUE ],
      [ Pkg(n, TRUE, TRUE, TRUE) EXCEPT !.copied = 0 ],
      Pkg(n, FALSE, TRUE, TRUE),
      Pkg(n, TRUE, FALSE, TRUE),
      Pkg(n, TRUE, TRUE, FALSE) }

\* what a command can find: no manifest file, or a manifest that lists each
\* package at most once
Envs ==
    { [ manifest |-> <<>>, hasManifest |-> FALSE ] }
        \cup { [ manifest |-> m, hasManifest |-> TRUE ] :
                 m \in { <<>> } \cup { <<a>> : a \in UNION { ManagedPkgs(n) : n \in PkgNames } }
                          \cup { <<a, b>> : a \in ManagedPkgs("p"), b \in ManagedPkgs("q") } }

\* removePackage(name): the entries of that name are dropped from
\* installed.json and the binaries they list are deleted; an error when there
\* is none
RemovePackage(name, inst, bins) ==
    IF name \notin SeqSet(inst)
    THEN [ err |-> "package not installed", installed |-> inst, bins |-> bins ]
    ELSE [ err |-> "", installed |-> SelectSeq(inst, LAMBDA n : n # name),
           bins |-> bins \ {name} ]

\* the record of a command that called installPackage with installed.json = mid
\* and the binaries bins
Installed(cmd, name, mid, bins) ==
    LET r == InstallPackage(name, mid)
    IN  [ installed |-> r.installed,
          bins |-> IF r.copied THEN bins \cup {name} ELSE bins,
          cmd |-> cmd, name |-> name, before |-> res.installed, binsBefore |-> res.bins,
          called |-> TRUE, mid |-> mid, ierr |-> r.err, copied |-> r.copied, err |-> r.err ]

\* the record of a command that did not call installPackage
NotInstalled(cmd, name, inst, bins, err) ==
    [ installed |-> inst, bins |-> bins,
      cmd |-> cmd, name |-> name, before |-> res.installed, binsBefore |-> res.bins,
      called |-> FALSE, mid |-> inst, ierr |-> "", copied |-> FALSE, err |-> err ]

\* binrex install <name>
CmdInstall(name) ==
    /\ res' = Installed("install", name, res.installed, res.bins)
    /\ UNCHANGED <<arg, appState>>

\* binrex remove <name>
CmdRemove(name) ==
    /\ LET r == RemovePackage(name, res.installed, res.bins)
       IN  res' = NotInstalled("remove", name, r.installed, r.bins, r.err)
    /\ UNCHANGED <<arg, appState>>

\* updatePackage(name): a package that is not recorded is installed; one that
\* is recorded and not in the manifest is an error; otherwise the old version
\* is removed (the value removePackage returns is not looked at), the
\* repository is pulled, and installPackage decides what is returned
UpdatePackage(name) ==
    IF name \notin SeqSet(res.installed)
    THEN Installed("update", name, res.installed, res.bins)
    ELSE IF FindPackage(name) = {}
    THEN NotInstalled("update", name, res.installed, res.bins, "not found")
    ELSE LET r == RemovePackage(name, res.installed, res.bins)
         IN  Installed("update", name, r.installed, r.bins)

\* binrex update <name>
CmdUpdate(name) ==
    /\ res' = UpdatePackage(name)
    /\ UNCHANGED <<arg, appState>>

\* between two commands: binrex sync replaces the manifest, and tools and
\* repositories change outside the program
SyncManifest ==
    /\ arg' \in Envs \ {arg}
    /\ res' = NotInstalled("sync", "", res.installed, res.bins, "")
    /\ UNCHANGED appState

\* createDirectories has written the empty installed.json
InitManage ==
    /\ InitApp({"one"}, 1, 0)
    /\ arg \in Envs
    /\ res = [ installed |-> <<>>, bins |-> {},
               cmd |-> "sync", name |-> "", before |-> <<>>, binsBefore |-> {},
               called |-> FALSE, mid |-> <<>>, ierr |-> "", copied |-> FALSE, err |-> "" ]

NextManage ==
    \/ \E n \in PkgNames : CmdInstall(n)
    \/ \E n \in PkgNames : CmdRemove(n)
    \/ \E n \in PkgNames : CmdUpdate(n)
    \/ SyncManifest

SpecManage == InitManage /\ [][NextManage]_vars

\* the pipeline of a single session, with one Start click and at most one
\* Stop click, on a tree with more media files than a batch holds, on the
\* trees with a failing stat and a file that is not media, and on a start
\* path whose own name is hidden
InitPipe == InitWith({"flat", "faulty", "nested", "dotroot"}, 1, 2)
SpecPipe == InitPipe /\ [][Next]_vars

(***************************************************************************)
(* The size computation of generateThumbnail on its own: the width and the *)
(* height of the decoded image are drawn, and the target size handed to    *)
(* resize.Resize is computed.                                              *)
(***************************************************************************)
\* generateThumbnail: maxDimension := 1200
maxDimension == 1200

\* the widths and heights of the source images examined
ProbeSides == { 1, 2, 3, 599, 1199, 1200, 1201, 2400, 2401 }

\* uint(float64(a) * float64(maxDimension) / float64(b)): the product and the
\* quotient of int values of this size are exact or correctly rounded in
\* float64 and the quotient is never rounded up to the next integer, so the
\* conversion yields the integer quotient
Scaled(a, b) == (a * maxDimension) \div b

\* generateThumbnail: newWidth, newHeight for bounds of width x height
TargetSize(width, height) ==
    IF width > height
    THEN IF width > maxDimension
         THEN [ newWidth |-> maxDimension, newHeight |-> Scaled(height, width) ]
         ELSE [ newWidth |-> width, newHeight |-> height ]
    ELSE IF height > maxDimension
         THEN [ newWidth |-> Scaled(width, height), newHeight |-> maxDimension ]
         ELSE [ newWidth |-> width, newHeight |-> height ]

\* generateThumbnail: lines 289-313 applied to the drawn bounds
ComputeTargetSize ==
    /\ ~res.done
    /\ res' = [ size |-> TargetSize(arg.width, arg.height), done |-> TRUE ]
    /\ UNCHANGED <<arg, appState>>

InitThumb ==
    /\ InitApp({"one"}, 1, 0)
    /\ arg \in [ width : ProbeSides, height : ProbeSides ]
    /\ res = [ size |-> [ newWidth |-> 0, newHeight |-> 0 ], done |-> FALSE ]

NextThumb == ComputeTargetSize

SpecThumb == InitThumb /\ [][NextThumb]_vars

\* two sessions at most and three clicks on the smallest tree: a Stop can
\* follow a Stop, find no session, and be followed by another Start
InitStop == InitWith({"one"}, 2, 3)
SpecStop == InitStop /\ [][Next]_vars

\* a single session on the tree a per-folder rule is configured for
InitRules == InitWith({"rules"}, 1, MaxClicksOne)
SpecRules == InitRules /\ [][Next]_vars

\* the same tree scanned twice: two Start clicks, two sessions
InitTwice == InitWith({"scenario", "nested", "faulty"}, 2, 2)
SpecTwice == InitTwice /\ [][Next]_vars

(***************************************************************************)
(* Properties                                                              *)
(***************************************************************************)
\* a session is active while its performScan goroutine, one of its workers or
\* its collector is still running
Active(s) ==
    \/ ppc[s] \notin {"none", "done"}
    \/ \E x \in BagToSet(workers[s]) : x.pc # "exit"
    \/ cpc[s] = "run"

\* every goroutine of the session has ended
Finished(s) == ppc[s] = "done" /\ cpc[s] = "done"

Paths(ms) == { m.path : m \in ms }

\* C1: at most one scan session is active at any time.
C1_AtMostOneActiveSession ==
    Cardinality({ s \in Sessions : Active(s) }) <= 1

\* C2: once a session's context has been cancelled by StopScan, IsScanning()
\* eventually returns false and the session eventually emits its final
\* scanProgress with IsComplete = true; no step other than a new Start click
\* takes a record out of the consumer's result set.
C2_StopEndsSession ==
    /\ (\E s \in Sessions : ctxDone[s]) ~> ~scanning
    /\ <>[](\A s \in Sessions : ctxDone[s] => finals[s] = 1 /\ finalProg[s].isComplete)
    /\ [][ mediaFiles \subseteq mediaFiles'
           \/ \E c \in Callers : call[c].pc = "idle" /\ call'[c].pc = "ss_load" ]_vars

C2_Witness ==
    \E s \in Sessions : ctxDone[s] /\ finals[s] = 1 /\ ~scanning /\ enq[s] # {}
                         /\ Cardinality(proc[s]) < Cardinality(enq[s])

\* C3: a started session eventually emits exactly one scanProgress with
\* IsComplete = true, never a second one, and no scanProgress with
\* IsComplete = false after it.
C3_ExactlyOneFinalProgress ==
    /\ [](\A s \in Sessions : finals[s] <= 1 /\ ~late[s])
    /\ <>[](\A s \in Sessions : ppc[s] # "none" => finals[s] = 1)

C3_Witness ==
    \E s \in Sessions : finals[s] = 1 /\ ctxDone[s] /\ ppc[s] = "done"
                         /\ scanProgress.isComplete

\* C4: whenever IsScanning() would return false, no session is active.
C4_FlagClearedAfterTeardown ==
    ~scanning => \A s \in Sessions : ~Active(s)

\* C5: when StartScan has been rejected with "scan already in progress", the
\* consumer still holds every record it held when the start was requested.
C5_RejectedStartKeepsResults ==
    \A c \in Callers :
        call[c].pc = "hs_catch" /\ call[c].err = "scan already in progress"
            => call[c].snap \subseteq mediaFiles

\* C6: no entry below a directory whose name begins with a dot is ever sent
\* on the path queue, counted as scanned, or delivered in a mediaFound batch.
C6_NothingBelowRefusedDirectory ==
    \A s \in Sessions : \A i \in 1..Len(T) : \A j \in 1..Len(T) :
        T[i].dir /\ Head(T[i].name) = "." /\ Under(T, i, j)
            => /\ j \notin enq[s]
               /\ j \notin proc[s]
               /\ j \notin Paths(delivered[s])
               /\ j \notin Paths(mediaFiles)

C6_Witness ==
    \E s \in Sessions : tree = "nested" /\ Finished(s) /\ ~ctxDone[s]
                         /\ Cardinality(proc[s]) = 2 /\ delivered[s] # {}

\* C7: the uncancelled scan of /root/{img.jpg, .hidden/secret.png, clip.mp4}
\* delivers exactly img.jpg (image) and clip.mp4 (video, no thumbnail), and its
\* final snapshot has ScannedFiles >= 2, FoundMedia = 2, IsComplete = true.
C7_ScenarioResult ==
    \A s \in Sessions :
        tree = "scenario" /\ Finished(s) /\ ~ctxDone[s]
            => /\ Cardinality(delivered[s]) = 2
               /\ nDelivered[s] = 2
               /\ \E m \in delivered[s] :
                     /\ T[m.path].name = <<"i","m","g",".","j","p","g">>
                     /\ m.type = "image"
               /\ \E m \in delivered[s] :
                     /\ T[m.path].name = <<"c","l","i","p",".","m","p","4">>
                     /\ m.type = "video"
                     /\ ~m.thumb
               /\ finals[s] = 1
               /\ finalProg[s].scannedFiles >= 2
               /\ finalProg[s].foundMedia = 2
               /\ finalProg[s].isComplete

C7_Witness ==
    \E s \in Sessions : tree = "scenario" /\ Finished(s) /\ ~ctxDone[s]

\* C8: two uncancelled scans of the same tree deliver the same records
\* (same paths, same kind per path).
C8_SameMembership ==
    \A s1 \in Sessions : \A s2 \in Sessions :
        Finished(s1) /\ Finished(s2) /\ ~ctxDone[s1] /\ ~ctxDone[s2]
            => delivered[s1] = delivered[s2]

C8_Witness ==
    /\ Finished(1) /\ Finished(2) /\ ~ctxDone[1] /\ ~ctxDone[2]
    /\ Cardinality(delivered[1]) = 2

\* C9: a path sent on the path queue is counted by at most one worker; it is
\* eventually counted unless the session is cancelled; when an uncancelled
\* session emits its final snapshot every path sent has been counted once and
\* ScannedFiles is the number of paths sent.
C9_EnqueuedPathsProcessedOnce ==
    /\ [](\A s \in Sessions :
            /\ proc[s] \subseteq enq[s]
            /\ scannedFiles[s] = Cardinality(proc[s])
            /\ (finals[s] = 1 /\ ~ctxDone[s]) =>
                   /\ proc[s] = enq[s]
                   /\ finalProg[s].scannedFiles = Cardinality(enq[s]))
    /\ <>[](\A s \in Sessions : ctxDone[s] \/ enq[s] \subseteq proc[s])

C9_Witness ==
    \E s \in Sessions : finals[s] = 1 /\ ~ctxDone[s] /\ Cardinality(enq[s]) = 2
                         /\ finalProg[s].scannedFiles = 2

\* C10: once the context of a session is cancelled, the walk sends no further
\* path on the path queue.
C10_NoSendAfterCancel ==
    [][ \A s \in Sessions : ctxDone[s] => enq'[s] = enq[s] ]_vars

\* C11: the pipeline never deadlocks: with or without cancellation every
\* launched session ends (walker returned, workers exited, collector done),
\* so a walker blocked on a full path queue, a worker blocked on a full result
\* queue and a consumer blocked on an empty open queue are all unblocked.
C11_PipelineCompletes ==
    <>[](\A s \in Sessions : ppc[s] # "none" => Finished(s) /\ ~Active(s))

\* the walker is blocked on the full path queue while the collector is
\* blocked on the empty, open result queue
C11_Witness ==
    \E s \in Sessions :
        /\ ppc[s] = "send" /\ Len(pathChan[s]) = PathCap /\ ~ctxDone[s]
        /\ cpc[s] = "run" /\ mediaChan[s] = <<>> /\ ~mediaClosed[s]

\* C12: when the walk meets a directory it cannot list, an uncancelled session
\* emits a scanError notification, goes on with the entries after that
\* directory and delivers the records found before and after it.
C12_ReadFailureSurfaced ==
    \A s \in Sessions :
        (Finished(s) /\ ~ctxDone[s] /\ \E i \in 1..Len(T) : T[i].readErr)
            => /\ scanErrors[s] >= 1
               /\ \A j \in 1..Len(T) :
                      (~T[j].dir /\ \A i \in 1..Len(T) : ~Under(T, i, j) \/ i = 1)
                          => j \in enq[s]
               /\ Paths(delivered[s]) = {2, 5}

\* the process has been ended by an unrecovered panic
Crashed == \E s \in Sessions : ppc[s] = "dead"

\* C13: a panic at the decode, resize or encode step of generateThumbnail is
\* contained to the one file: the process goes on, and an uncancelled session
\* that has ended delivered every such file with an empty thumbnail.
C13_ThumbnailFaultContained ==
    /\ ~Crashed
    /\ \A s \in Sessions :
           (Finished(s) /\ ~ctxDone[s]) =>
               \A j \in 1..Len(T) :
                   T[j].fault # "none" =>
                       [ path |-> j, type |-> "image", thumb |-> FALSE ] \in delivered[s]

\* the files the walk sends that a worker reports as media: not hidden, not
\* below a hidden or unreadable directory, of a media extension, and os.Stat
\* succeeds
Findable ==
    { j \in 2..Len(T) :
        /\ ~T[j].dir
        /\ ~IsHidden(T[j].name)
        /\ MediaType(T[j].name) # ""
        /\ T[j].statOK
        /\ \A i \in 2..Len(T) : Under(T, i, j) => ~IsHidden(T[i].name) /\ ~T[i].readErr }

\* C14: an image that cannot be opened or decoded is still counted as found
\* and delivered, with an empty thumbnail: no delivered record of such a file
\* has a thumbnail, the process goes on, and an uncancelled session that has
\* ended counted and delivered every findable file and emitted no scanError.
C14_DecodeFailureKeepsRecord ==
    /\ ~Crashed
    /\ \A s \in Sessions :
           /\ \A m \in delivered[s] : ~T[m.path].decodes => ~m.thumb
           /\ scanErrors[s] = 0
           /\ (Finished(s) /\ ~ctxDone[s]) =>
                  /\ Paths(delivered[s]) = Findable
                  /\ finalProg[s].foundMedia = Cardinality(Findable)

C14_Witness ==
    \E s \in Sessions :
        /\ tree = "faulty" /\ Finished(s) /\ ~ctxDone[s]
        /\ [ path |-> 2, type |-> "image", thumb |-> FALSE ] \in delivered[s]
        /\ finalProg[s].foundMedia = 2

\* C15: thumbnail generation reads at most the maximum byte count from a
\* source image, and the record of a source image longer than that maximum
\* has no thumbnail.
C15_LargeImageNoThumbnail ==
    \A s \in Sessions : \A m \in delivered[s] :
        m.type = "image" =>
            /\ BytesRead(T[m.path]) <= MaxThumbBytes
            /\ T[m.path].size > MaxThumbBytes => ~m.thumb

\* C16: classification is total, stable and case-insensitive: the image and
\* the video extensions are disjoint, every name is classified as exactly one
\* of image, video and not-media (""), and a name that differs only in the
\* case of its letters is classified as the name first drawn was.
C16_ClassificationTotalStable ==
    /\ imageExts \cap videoExts = {}
    /\ res # <<>> =>
           (res.kind # "?" =>
               /\ res.kind \in {"image", "video", ""}
               /\ res.kind = res.first)

C16_Witness ==
    /\ arg = <<".", "M", "p", "4">>
    /\ res # <<>>
    /\ res.changed /\ res.kind = "video" /\ res.first = "video"

\* the plain files with a hidden name and a media extension that lie in a
\* directory the walk lists
HiddenMedia ==
    { j \in 2..Len(T) :
        /\ ~T[j].dir
        /\ Head(T[j].name) = "."
        /\ MediaType(T[j].name) # ""
        /\ T[j].statOK
        /\ \A i \in 2..Len(T) : Under(T, i, j) => Head(T[i].name) # "." /\ ~T[i].readErr }

\* C17: the hidden rule prunes directories only: when an uncancelled session
\* has ended, every hidden-named media file of a traversed directory has been
\* enqueued, classified and delivered.
C17_HiddenFilesDelivered ==
    \A s \in Sessions :
        (Finished(s) /\ ~ctxDone[s]) =>
            /\ HiddenMedia \subseteq enq[s]
            /\ HiddenMedia \subseteq proc[s]
            /\ HiddenMedia \subseteq Paths(delivered[s])

\* C17 as amended: the hidden rule also applies to plain files: a file whose
\* own name begins with '.' is never enqueued, counted or delivered, and never
\* enters the consumer's result set.
C17_HiddenFilesSkipped ==
    \A s \in Sessions :
        \A j \in enq[s] \cup proc[s] \cup Paths(delivered[s]) \cup Paths(mediaFiles) :
            Head(T[j].name) # "."

C17_Witness ==
    \E s \in Sessions :
        /\ tree = "nested" /\ Finished(s) /\ ~ctxDone[s]
        /\ HiddenMedia = {5}
        /\ Paths(delivered[s]) = {8}

\* C18: once a later session has been started, no earlier session emits a
\* mediaFound batch any more, so nothing of a prior scan is added to the
\* result set that was cleared for the new one.
C18_NoBatchFromEarlierSession ==
    [][ \A s \in Sessions :
            (\E t \in Sessions : t > s /\ ppc[t] # "none")
                => nDelivered'[s] = nDelivered[s] ]_vars

\* C19: with only the kind filter set, to video, the filter effect returns
\* exactly the video records of the result list: every returned record is a
\* video record of the list, and as many are returned as the list holds.
C19_VideoFilterExact ==
    (res # <<>> /\ arg # <<>>) =>
        ((res.fresh /\ arg.filter = "video" /\ arg.searchTerm = <<>> /\ arg.folderPath = <<>>) =>
            /\ \A i \in 1..Len(res.out) :
                   res.out[i].type = "video" /\ res.out[i] \in SeqSet(arg.files)
            /\ \A r \in SeqSet(arg.files) :
                   r.type = "video" =>
                       Cardinality({ i \in 1..Len(res.out) : res.out[i] = r })
                           = Cardinality({ i \in 1..Len(arg.files) : arg.files[i] = r }))

C19_Witness ==
    /\ res # <<>> /\ arg # <<>>
    /\ res.fresh /\ arg.filter = "video" /\ arg.searchTerm = <<>> /\ arg.folderPath = <<>>
    /\ Len(arg.files) = 3 /\ Len(res.out) = 2
    /\ arg.files[2].type = "image"

\* C20: with the rule {allowed: ["a"], blocked: [], recursive: true} on /P, an
\* uncancelled scan rooted above /P that has ended delivered the media files
\* under /P/a at any depth and no file under /P/b; no file under /P/b is ever
\* enqueued or delivered.
C20_FolderRuleApplied ==
    \A s \in Sessions :
        /\ \A j \in enq[s] \cup Paths(delivered[s]) : ~RuleExcludes(T, j)
        /\ (Finished(s) /\ ~ctxDone[s]) =>
               { j \in Findable : ~RuleExcludes(T, j) } \subseteq Paths(delivered[s])

\* the packages of the manifest that installAll is to install and that can be
\* built: not yet installed, supported on this system, tools present
Installable ==
    { arg.manifest[i].name : i \in { k \in 1..Len(arg.manifest) :
          Eligible(arg.manifest[k], arg.installed) /\ arg.manifest[k].builds } }

\* C21: `install -a` installs every eligible package of the manifest and
\* nothing else: when the process has ended, the installed list is the former
\* one plus the eligible packages, no installation of a package named "-a"
\* was attempted, and the exit code is 0 when every installation succeeded.
C21_InstallAllExact ==
    (res # <<>> /\ arg # <<>>) =>
        ((res.pc = "exit" /\ res.ranAll /\ arg.argv = <<"binrex", "install", "-a">>) =>
            /\ SeqSet(res.installed) = SeqSet(arg.installed) \cup Installable
            /\ "-a" \notin SeqSet(res.tried)
            /\ (res.failCount = 0 => res.exit = 0))

\* C22: records are delivered in batches bounded by the batch size: every
\* mediaFound batch holds between 1 and BatchSize records, every batch the
\* collector emits before its last one holds exactly BatchSize, and every
\* record a worker pushed on the result queue appears in exactly one batch
\* (none is delivered that was not pushed, none twice, and none is missing
\* once the collector has ended).
C22_BatchesBounded ==
    /\ [][ \A s \in Sessions :
               nDelivered'[s] # nDelivered[s] =>
                   /\ nDelivered'[s] - nDelivered[s] \in 1..BatchSize
                   /\ cpc'[s] = "run" => nDelivered'[s] - nDelivered[s] = BatchSize ]_vars
    /\ [](\A s \in Sessions :
              /\ delivered[s] \subseteq pushed[s]
              /\ nDelivered[s] = Cardinality(delivered[s])
              /\ nDelivered[s] <= nPushed[s]
              /\ cpc[s] = "done" => delivered[s] = pushed[s] /\ nDelivered[s] = nPushed[s])

\* three records pushed: a full batch and a last batch of one
C22_Witness ==
    \E s \in Sessions :
        /\ tree = "flat" /\ cpc[s] = "done" /\ ~ctxDone[s]
        /\ nPushed[s] = BatchSize + 1 /\ nDelivered[s] = BatchSize + 1

\* C23: non-final scanProgress snapshots follow the cadence ProgressEvery of
\* the scanned count: each one carries a ScannedFiles value that is a multiple
\* of ProgressEvery, and none repeats the value of the non-final snapshot the
\* same session emitted before it (the consumer's scanProgress, when it is a
\* snapshot of the walk below the start path).
C23_ProgressCadence ==
    [][ \A s \in Sessions :
            (ppc[s] = "prog_found" /\ ppc'[s] \notin {"prog_found", "dead"}) =>
                /\ scanProgress'.scannedFiles % ProgressEvery = 0
                /\ ~ /\ ~scanProgress.isComplete
                     /\ scanProgress.currentPath # 0
                     /\ scanProgress.scannedFiles = scanProgress'.scannedFiles ]_vars

\* the paths a worker has counted that are media files os.Stat succeeds on
Found(s) == { j \in proc[s] : MediaType(T[j].name) # "" /\ T[j].statOK }

\* the paths held by the workers of the session that are at the given position
HeldAt(s, pc) == { x.cur : x \in { y \in BagToSet(workers[s]) : y.pc = pc } }

C25_PathDeliveredOnce ==
    /\ \A s \in Sessions : nDelivered[s] = Cardinality(Paths(delivered[s]))
    /\ \A m1 \in mediaFiles : \A m2 \in mediaFiles : m1.path = m2.path => m1 = m2

\* three files delivered in two batches, three records in the result set
C25_Witness ==
    \E s \in Sessions :
        /\ tree = "flat" /\ Finished(s) /\ ~ctxDone[s]
        /\ Paths(delivered[s]) = {2, 3, 4}
        /\ Cardinality(mediaFiles) = 3

\* the records of the session the collector has received
Collected(s) == IF cpc[s] = "run" THEN nDelivered[s] + Len(batch[s]) ELSE nDelivered[s]

\* C26: backpressure bounds hold in every reachable state: the path queue
\* never holds more than PathCap paths, the records pushed and not yet
\* collected never number more than MediaCap, and while the path queue is
\* full and the session is not cancelled the walker stays at its send: it
\* sends nothing and visits no further entry.
C26_Backpressure ==
    /\ [](\A s \in Sessions :
              /\ Len(pathChan[s]) <= PathCap
              /\ Len(mediaChan[s]) <= MediaCap
              /\ nPushed[s] - Collected(s) \in 0..MediaCap)
    /\ [][ \A s \in Sessions :
               (ppc[s] = "send" /\ Len(pathChan[s]) >= PathCap /\ ~ctxDone[s]) =>
                   /\ ppc'[s] = "send"
                   /\ idx'[s] = idx[s]
                   /\ enq'[s] = enq[s] ]_vars

\* both queues are full and the walker waits at its send
C26_Witness ==
    \E s \in Sessions :
        /\ ppc[s] = "send" /\ ~ctxDone[s]
        /\ Len(pathChan[s]) = PathCap /\ Len(mediaChan[s]) = MediaCap
        /\ idx[s] \notin enq[s]

\* C27: for every source size (w, h) with w, h >= 1 the target size satisfies:
\* both dimensions are >= 1 and <= maxDimension, neither exceeds the source
\* dimension, the longer side is min(max(w, h), maxDimension), and a source
\* with both sides <= maxDimension keeps its size.
C27_TargetSizeBounds ==
    (res # <<>> /\ arg # <<>>) =>
        (res.done =>
            /\ res.size.newWidth >= 1 /\ res.size.newHeight >= 1
            /\ res.size.newWidth <= maxDimension /\ res.size.newHeight <= maxDimension
            /\ res.size.newWidth <= arg.width /\ res.size.newHeight <= arg.height
            /\ LET longer == IF arg.width > arg.height THEN arg.width ELSE arg.height
                   got == IF res.size.newWidth > res.size.newHeight
                          THEN res.size.newWidth ELSE res.size.newHeight
               IN  got = IF longer < maxDimension THEN longer ELSE maxDimension
            /\ (arg.width <= maxDimension /\ arg.height <= maxDimension) =>
                   res.size = [ newWidth |-> arg.width, newHeight |-> arg.height ])

\* C28: every mediaFound batch of a session is emitted before the session's
\* final scanProgress and before performScan returns and clears the running
\* flag: once the completion snapshot has been emitted, the session delivers
\* no further record.
C28_NoRecordAfterCompletion ==
    [][ \A s \in Sessions :
            (finals[s] >= 1 \/ ppc[s] = "done") =>
                /\ nDelivered'[s] = nDelivered[s]
                /\ delivered'[s] = delivered[s] ]_vars

\* C29: no push ever happens on a closed queue: the path queue is closed once,
\* by performScan after the walk has returned, and nothing is sent on it
\* afterwards; the result queue is closed once, after the path queue and only
\* when all workerCount workers have exited, and nothing is sent on it
\* afterwards; in every interleaving, cancellation included.
C29_NoPushOnClosedQueue ==
    /\ [](\A s \in Sessions :
              /\ pathClosed[s] => ppc[s] \in {"wait", "final", "ret", "done"}
              /\ mediaClosed[s] =>
                     /\ pathClosed[s]
                     /\ ppc[s] \in {"final", "ret", "done"}
                     /\ BagCardinality(workers[s]) = workerCount
                     /\ \A x \in BagToSet(workers[s]) : x.pc = "exit")
    /\ [][ \A s \in Sessions :
               /\ Len(pathChan'[s]) > Len(pathChan[s]) => ~pathClosed[s] /\ ~pathClosed'[s]
               /\ Len(mediaChan'[s]) > Len(mediaChan[s]) => ~mediaClosed[s] /\ ~mediaClosed'[s]
               /\ pathClosed[s] => pathClosed'[s]
               /\ mediaClosed[s] => mediaClosed'[s]
               /\ pathClosed'[s] # pathClosed[s] => ppc[s] = "close" /\ ppc'[s] = "wait"
               /\ mediaClosed'[s] # mediaClosed[s] => ppc[s] = "wait" /\ ppc'[s] = "final"
               /\ (ppc[s] = "close" /\ ppc'[s] # "close") => ~pathClosed[s]
               /\ (ppc[s] = "wait" /\ ppc'[s] # "wait") => ~mediaClosed[s] ]_vars

\* a cancelled session whose result queue is closed after a worker gave up
\* its push
C29_Witness ==
    \E s \in Sessions :
        /\ ctxDone[s] /\ mediaClosed[s] /\ pathClosed[s]
        /\ nPushed[s] < foundMedia[s]
        /\ nPushed[s] >= 1

\* C30: every emitted scanProgress snapshot, final or not, has
\* FoundMedia <= ScannedFiles (the consumer's scanProgress is the snapshot
\* emitted last).
C30_FoundAtMostScanned ==
    /\ scanProgress.foundMedia <= scanProgress.scannedFiles
    /\ \A s \in Sessions : finalProg[s].foundMedia <= finalProg[s].scannedFiles

\* C31: in a session that is never cancelled, the FoundMedia of the final
\* scanProgress equals the number of records delivered in the session's
\* mediaFound batches; in every session, cancelled or not, the number delivered
\* is at most found-count, and at most the FoundMedia of the final snapshot
\* once that has been emitted.
C31_DeliveredMatchesFound ==
    \A s \in Sessions :
        /\ nDelivered[s] <= foundMedia[s]
        /\ finals[s] >= 1 => nDelivered[s] <= finalProg[s].foundMedia
        /\ Finished(s) /\ ~ctxDone[s] =>
               /\ finals[s] = 1
               /\ finalProg[s].foundMedia = nDelivered[s]
               /\ nDelivered[s] = Cardinality(Found(s))

\* an uncancelled session has ended with all the records it found delivered, in
\* more than one batch
C31_Witness ==
    \E s \in Sessions :
        /\ Finished(s)
        /\ ~ctxDone[s]
        /\ finalProg[s].foundMedia > BatchSize
        /\ nDelivered[s] = finalProg[s].foundMedia

\* C32: once the context of a session is cancelled no worker passes the
\* cancellation check again: the only paths counted from then on are those a
\* worker already held past the check, one per worker, so scanned-count grows
\* by at most the number of workers (4) after the cancellation.
C32_BoundedWorkAfterCancel ==
    [][ \A s \in Sessions :
            /\ Cardinality(HeldAt(s, "add")) <= workerCount
            /\ ctxDone[s] =>
                   /\ HeldAt(s, "add")' \subseteq HeldAt(s, "add")
                   /\ scannedFiles'[s] >= scannedFiles[s]
                   /\ scannedFiles'[s] - scannedFiles[s]
                          <= Cardinality(HeldAt(s, "add")) - Cardinality(HeldAt(s, "add")')
                   /\ proc'[s] \ proc[s] \subseteq HeldAt(s, "add") ]_vars

\* the context is cancelled while two workers are past the check with a path
\* each and a third has taken a path it has not checked the context for
C32_Witness ==
    \E s \in Sessions :
        /\ ctxDone[s]
        /\ Cardinality(HeldAt(s, "add")) >= 2
        /\ HeldAt(s, "chk") # {}

\* C33: within one session the emitted scanProgress snapshots are monotone:
\* the ScannedFiles read for a snapshot is never below the one read for the
\* snapshot before it, every snapshot the session emits carries ScannedFiles
\* and FoundMedia no smaller than the snapshot the frontend holds, and the
\* final snapshot carries the largest values of both.
\* (rdScanned keeps the ScannedFiles of the session's last non-final snapshot;
\* the frontend holds the session's last snapshot, or zeros after a Start click.)
C33_SnapshotsMonotone ==
    [][ \A s \in Sessions :
            /\ ppc[s] = "prog_scanned" /\ ppc'[s] = "prog_found" =>
                   rdScanned'[s] >= rdScanned[s]
            /\ ppc[s] = "prog_found" /\ ppc'[s] \notin {"prog_found", "dead"} =>
                   /\ ~scanProgress'.isComplete
                   /\ scanProgress'.scannedFiles >= scanProgress.scannedFiles
                   /\ scanProgress'.foundMedia >= scanProgress.foundMedia
            /\ ppc[s] = "final" /\ ppc'[s] = "ret" =>
                   /\ scanProgress' = finalProg'[s]
                   /\ scanProgress'.isComplete
                   /\ scanProgress'.scannedFiles >= scanProgress.scannedFiles
                   /\ scanProgress'.foundMedia >= scanProgress.foundMedia
                   /\ scanProgress'.scannedFiles >= rdScanned[s]
                   /\ scanProgress'.scannedFiles = scannedFiles[s]
                   /\ scanProgress'.foundMedia = foundMedia[s] ]_vars

\* a session has emitted its final snapshot after a non-final one that already
\* carried counts above zero, and the final one carries larger counts
C33_Witness ==
    \E s \in Sessions :
        /\ ppc[s] = "ret"
        /\ rdScanned[s] >= 1
        /\ scanProgress = finalProg[s]
        /\ scanProgress.scannedFiles > rdScanned[s]
        /\ scanProgress.foundMedia >= 2

\* C34: when the start path's own final name begins with '.', the start path
\* is pruned like any hidden directory: the session enqueues no path, emits no
\* non-final snapshot and no mediaFound batch, and completes with a final
\* snapshot of ScannedFiles = 0 and FoundMedia = 0, whatever the tree holds.
C34_HiddenRootPruned ==
    Head(T[1].name) = "." =>
        /\ mediaFiles = {}
        /\ scanProgress.currentPath = 0
        /\ \A s \in Sessions :
               /\ enq[s] = {} /\ proc[s] = {} /\ pushed[s] = {}
               /\ scannedFiles[s] = 0 /\ foundMedia[s] = 0
               /\ delivered[s] = {} /\ nDelivered[s] = 0
               /\ idx[s] \in {0, 1, Len(T) + 1}
               /\ ppc[s] \in {"none", "init", "cb", "close", "wait", "final", "ret", "done"}
               /\ ~late[s]
               /\ walkErr[s] \in {"nil", "SkipAll"}
               /\ scanErrors[s] = 0
               /\ finals[s] >= 1 => finalProg[s] = Snapshot(0, 0, 0, TRUE)
               /\ Finished(s) => finals[s] = 1

\* an uncancelled session on a hidden start path that holds two image files
\* has come to its end
C34_Witness ==
    /\ Head(T[1].name) = "."
    /\ \E j \in 1..Len(T) : MediaType(T[j].name) = "image" /\ T[j].depth = 2
    /\ \E s \in Sessions :
           /\ Finished(s) /\ ~ctxDone[s]
           /\ \A x \in BagToSet(workers[s]) : x.pc = "exit"
           /\ finalProg[s] = Snapshot(0, 0, 0, TRUE)

\* C35: StopScan is idempotent and safe when idle. Whatever state it is called
\* in, with no session active or a second time after a first call, its locked
\* section returns with the stored cancel function empty, having cancelled the
\* stored context if there was one and nothing else (nothing at all when the
\* stored function was empty); its last statement leaves the running flag
\* false; a StartScan that then finds the flag false is not rejected; and the
\* flag is false whenever no session is active and no StartScan is between its
\* Store(true) and the launch of its session.
C35_StopScanIdempotent ==
    /\ [](  (/\ \A c \in Callers : call[c].pc \notin {"ss_lock", "ss_go"}
             /\ \A s \in Sessions : ~Active(s))
            => ~scanning )
    /\ [][ \A c \in Callers :
            /\ call[c].pc = "st_lock" /\ call'[c] # call[c] =>
                   /\ call'[c].pc = "st_store"
                   /\ cancelFn' = 0
                   /\ \A s \in Sessions : ctxDone'[s] # ctxDone[s] => s = cancelFn
                   /\ cancelFn = 0 => ctxDone' = ctxDone
                   /\ scanning' = scanning /\ ppc' = ppc /\ workers' = workers /\ cpc' = cpc
            /\ call[c].pc = "st_store" /\ call'[c] # call[c] =>
                   /\ call'[c].pc = "ht_set"
                   /\ ~scanning'
                   /\ cancelFn' = cancelFn /\ ctxDone' = ctxDone
                   /\ ppc' = ppc /\ workers' = workers /\ cpc' = cpc
            /\ call[c].pc = "ss_load" /\ call'[c] # call[c] /\ ~scanning =>
                   \/ call'[c].pc = "ss_store"
                   \/ call'[c].pc = "hs_catch" /\ call'[c].err = "home" ]_vars

\* one session was started and cancelled by a first Stop; a second Stop has
\* run to its end as well, and flag and cancel function are as the first left them
C35_Witness ==
    /\ nSess = 1 /\ clicks = 3
    /\ ctxDone[1]
    /\ \A c \in Callers : call[c].pc = "idle"
    /\ ~scanning /\ cancelFn = 0

\* C36 as stated: after any sequence of install, remove and update commands
\* installed.json holds at most one entry per package name, and installing a
\* package that is already recorded returns success and leaves installed.json
\* and the installed binaries unchanged.
C36_InstalledAgainSucceeds ==
    /\ \A i \in 1..Len(res.installed) : \A j \in 1..Len(res.installed) :
           res.installed[i] = res.installed[j] => i = j
    /\ res.cmd = "install" /\ res.name \in SeqSet(res.before) =>
           /\ res.err = ""
           /\ res.installed = res.before
           /\ res.bins = res.binsBefore

\* C36, amended: after any sequence of install, remove and update commands
\* installed.json holds at most one entry per package name; installing a
\* package that is already recorded leaves installed.json and the installed
\* binaries unchanged, and returns success exactly when the manifest file
\* exists, lists the package, names this OS and the required tools are
\* present (otherwise it returns the error of the first of these checks that
\* fails).
C36_OneEntryPerName ==
    /\ \A i \in 1..Len(res.installed) : \A j \in 1..Len(res.installed) :
           res.installed[i] = res.installed[j] => i = j
    /\ res.cmd = "install" /\ res.name \in SeqSet(res.before) =>
           /\ res.installed = res.before
           /\ res.bins = res.binsBefore
           /\ ~res.copied
           /\ res.err =
                  IF ~arg.hasManifest THEN "manifest not found"
                  ELSE IF FindPackage(res.name) = {} THEN "not found"
                  ELSE LET pkg == arg.manifest[CHOOSE i \in FindPackage(res.name) : TRUE]
                       IN  IF ~pkg.osOK THEN "unsupported OS"
                           ELSE IF ~pkg.toolsOK THEN "missing required tools"
                           ELSE ""

\* two packages are recorded and an install of one of them has returned success
C36_Witness ==
    /\ res.cmd = "install"
    /\ res.name \in SeqSet(res.before)
    /\ res.err = ""
    /\ Len(res.installed) = Cardinality(PkgNames)
    /\ res.name \in res.bins

\* C37: updating a package that is installed and present in the manifest
\* leaves it installed: when updatePackage has returned, with success or with
\* an error, installed.json still holds an entry for that package.
C37_UpdateKeepsInstalled ==
    (/\ res.cmd = "update"
     /\ res.name \in SeqSet(res.before)
     /\ arg.hasManifest
     /\ FindPackage(res.name) # {})
        => res.name \in SeqSet(res.installed)

\* C38: an installPackage call that returns an error adds no entry to
\* installed.json and copies nothing; an entry is appended only by a call that
\* returns success, for a name that had no entry, after at least one binary
\* was copied or for a package whose build script places the binaries.
C38_EntryOnlyOnSuccess ==
    res.called =>
        /\ res.ierr \in {"", "manifest not found", "not found", "unsupported OS",
                         "missing required tools", "build failed", "no binaries installed"}
        /\ res.ierr # "" => res.installed = res.mid /\ ~res.copied
        /\ res.copied => res.name \in res.bins
        /\ res.installed # res.mid =>
               /\ res.ierr = ""
               /\ res.name \notin SeqSet(res.mid)
               /\ res.installed = Append(res.mid, res.name)
               /\ \E i \in FindPackage(res.name) :
                      IF arg.manifest[i].buildDirExist
                      THEN ~res.copied
                      ELSE res.copied /\ arg.manifest[i].copied >= 1

\* an installPackage call got as far as the search for binaries, copied none
\* and returned its error, with another package recorded
C38_Witness ==
    /\ res.called
    /\ res.ierr = "no binaries installed"
    /\ res.installed = res.mid
    /\ Len(res.installed) = 1
    /\ res.name \notin SeqSet(res.installed)

====
